---------------------------- MODULE Spec2Model ----------------------------
(***************************************************************************)
(* A model of gherkin_reader: the line classifier, the table and step      *)
(* decoders, the recursive-descent feature parser and the argument type    *)
(* inference.                                                              *)
(*                                                                         *)
(* Text is a sequence of one-character strings, so that trimming,          *)
(* splitting and replacing are computed character by character as the      *)
(* Rust code computes them.                                                *)
(***************************************************************************)
EXTENDS Naturals, Integers, Sequences, FiniteSets, TLC

VARIABLES
    pc,      \* the position of the running call ("done" once it returned)
    doc,     \* the lines the `lines` iterator has yielded so far, in order
    st,      \* the locals of the parse functions on the call stack
    result,  \* the Result the call returned (NoResult while it runs)
    arg,     \* the argument of a direct call of a decoder or of the inference
    output   \* what the export of the parsed feature produced

vars == <<pc, doc, st, result, arg, output>>

(***************************************************************************)
(* Bounds of the model.                                                    *)
(***************************************************************************)
\* The lines of an input of Spec.
MaxLines == 7
\* The lines of an input of SpecGroups.
MaxGroupLines == 6
\* The lines of an input of SpecBlocks.
MaxBlockLines == 8
\* Direct calls of GherkinLine::from_str: the words of the line.
MaxLineWords == 4
MaxTagLen == 6
\* The lines of an input of SpecQuiet.
MaxQuietLines == 6
\* The lines of an input of SpecBatch, and the files handled before it.
MaxBatchLines == 5
MaxProseLines == 5
MaxShapeLines == 11
MaxTableLines == 7
MaxFilesBefore == 1
\* Direct calls of Step::new and ExampleRow::from_str: the characters of the text.
MaxStepLen == 4
MaxRowLen == 6
\* Direct calls of calculate_arg_types: the blocks of the outline, the label
\* columns and the example rows of a block, the example cells of the outline.
MaxBlocks == 2
MaxCols == 2
MaxRows == 3
MaxCells == 4

BoundedSeq(S, n) == UNION {[1..k -> S] : k \in 0..n}

Min(a, b) == IF a <= b THEN a ELSE b

(***************************************************************************)
(* anyhow::Result: Ok(value), or an error with its chain of contexts, the  *)
(* innermost message first.                                                *)
(***************************************************************************)
NoResult == [tag |-> "none"]
Ok(v) == [tag |-> "ok", val |-> v]
Err(e) == [tag |-> "err", chain |-> <<e>>]
IsOk(r) == r.tag = "ok"
IsErr(r) == r.tag = "err"
\* Result::context: wraps an error, leaves Ok alone.
Context(r, c) == IF r.tag = "err" THEN [r EXCEPT !.chain = Append(@, c)] ELSE r

(***************************************************************************)
(* str helpers.                                                            *)
(***************************************************************************)
IsWhite(c) == c \in {" ", "\t"}

RECURSIVE TrimStart(_)
TrimStart(s) ==
    IF s # <<>> /\ IsWhite(Head(s)) THEN TrimStart(Tail(s)) ELSE s

RECURSIVE TrimEnd(_)
TrimEnd(s) ==
    IF s # <<>> /\ IsWhite(s[Len(s)])
    THEN TrimEnd(SubSeq(s, 1, Len(s) - 1))
    ELSE s

\* str::trim
Trim(s) == TrimEnd(TrimStart(s))

\* str::starts_with
StartsWith(s, p) == Len(s) >= Len(p) /\ SubSeq(s, 1, Len(p)) = p

\* The least index of s at or after i whose character is in cs; 0 when none.
RECURSIVE FindFrom(_, _, _)
FindFrom(s, cs, i) ==
    IF i > Len(s) THEN 0
    ELSE IF s[i] \in cs THEN i
    ELSE FindFrom(s, cs, i + 1)

\* str::split(pattern): the segments between the characters of cs, empty
\* segments included, so a text with n delimiters yields n + 1 segments.
RECURSIVE SplitOn(_, _)
SplitOn(s, cs) ==
    LET i == FindFrom(s, cs, 1) IN
    IF i = 0 THEN <<s>>
    ELSE <<SubSeq(s, 1, i - 1)>> \o SplitOn(SubSeq(s, i + 1, Len(s)), cs)

\* str::split_once(c): None, or the text before and after the first c.
SplitOnce(s, c) ==
    LET i == FindFrom(s, {c}, 1) IN
    IF i = 0 THEN [found |-> FALSE, before |-> <<>>, after |-> <<>>]
    ELSE [found |-> TRUE,
          before |-> SubSeq(s, 1, i - 1),
          after |-> SubSeq(s, i + 1, Len(s))]

\* str::replace(from, to), from non-empty: every non-overlapping match,
\* left to right.
RECURSIVE Replace(_, _, _)
Replace(s, from, to) ==
    IF Len(s) < Len(from) THEN s
    ELSE IF SubSeq(s, 1, Len(from)) = from
    THEN to \o Replace(SubSeq(s, Len(from) + 1, Len(s)), from, to)
    ELSE <<Head(s)>> \o Replace(Tail(s), from, to)

\* str::contains
RECURSIVE Contains(_, _)
Contains(s, p) ==
    IF Len(s) < Len(p) THEN FALSE
    ELSE StartsWith(s, p) \/ Contains(Tail(s), p)

RECURSIVE Concat(_)
Concat(ss) == IF ss = <<>> THEN <<>> ELSE Head(ss) \o Concat(Tail(ss))

(***************************************************************************)
(* step.rs: the step decoder.                                              *)
(***************************************************************************)
StepKeywords == {"Given", "When", "Then", "And", "But", "Bullet"}

\* The loop of Step::new over the remaining tokens: a variable, then the
\* literal that must follow it.
RECURSIVE StepLoop(_, _, _, _, _)
StepLoop(keyword, input, tokens, literals, variables) ==
    IF tokens = <<>>
    THEN Ok([keyword |-> keyword, literals |-> literals, variables |-> variables])
    ELSE IF Len(tokens) = 1
    THEN Err([msg |-> "Step ends with unterminated variable expression",
              input |-> input])
    ELSE StepLoop(keyword, input, SubSeq(tokens, 3, Len(tokens)),
                  Append(literals, tokens[2]), Append(variables, tokens[1]))

\* The same loop without the check that a literal follows each variable.
RECURSIVE StepLoopUnchecked(_, _, _, _, _)
StepLoopUnchecked(keyword, input, tokens, literals, variables) ==
    IF tokens = <<>>
    THEN Ok([keyword |-> keyword, literals |-> literals, variables |-> variables])
    ELSE IF Len(tokens) = 1
    THEN Ok([keyword |-> keyword, literals |-> literals,
             variables |-> Append(variables, tokens[1])])
    ELSE StepLoopUnchecked(keyword, input, SubSeq(tokens, 3, Len(tokens)),
                  Append(literals, tokens[2]), Append(variables, tokens[1]))

StepNewUnchecked(keyword, input) ==
    LET tokens == SplitOn(Trim(Trim(input)), {"<", ">"}) IN
    StepLoopUnchecked(keyword, input, Tail(tokens), <<Head(tokens)>>, <<>>)

\* Step::new
StepNew(keyword, input) ==
    LET text == Trim(Trim(input))
        tokens == SplitOn(text, {"<", ">"})
    IN  StepLoop(keyword, input, Tail(tokens), <<Head(tokens)>>, <<>>)

(***************************************************************************)
(* feature.rs: the table decoder.                                          *)
(***************************************************************************)
\* The closure given to split in ExampleRow::from_str, applied to the
\* characters of s in order: `escaping` is its captured flag, cur the segment
\* being read and segs the segments already closed.
RECURSIVE RowScan(_, _, _, _)
RowScan(s, escaping, cur, segs) ==
    IF s = <<>> THEN Append(segs, cur)
    ELSE IF escaping THEN RowScan(Tail(s), FALSE, Append(cur, Head(s)), segs)
    ELSE IF Head(s) = "\\" THEN RowScan(Tail(s), TRUE, Append(cur, Head(s)), segs)
    ELSE IF Head(s) = "|" THEN RowScan(Tail(s), FALSE, <<>>, Append(segs, cur))
    ELSE RowScan(Tail(s), FALSE, Append(cur, Head(s)), segs)

\* ever_escaped of ExampleRow::from_str: the closure met a backslash while
\* it was not escaping.
RECURSIVE EverEscaped(_, _)
EverEscaped(s, escaping) ==
    IF s = <<>> THEN FALSE
    ELSE IF escaping THEN EverEscaped(Tail(s), FALSE)
    ELSE IF Head(s) = "\\" THEN TRUE
    ELSE EverEscaped(Tail(s), FALSE)

EscapedPipe == <<"\\", "|">>

\* An entry left as it was read.
UnescapeNever(entry) == entry

\* The correction of one entry in ExampleRow::from_str.
Unescape(entry) ==
    IF Contains(entry, EscapedPipe) THEN Replace(entry, EscapedPipe, <<"|">>)
    ELSE entry

\* ExampleRow::from_str
ExampleRowFromStr(input) ==
    LET segs == RowScan(input, FALSE, <<>>, <<>>)
        trimmed == [i \in 1..(Len(segs) - 1) |-> Trim(segs[i + 1])]
        entries == IF EverEscaped(input, FALSE)
                   THEN [i \in 1..Len(trimmed) |-> Unescape(trimmed[i])]
                   ELSE trimmed
    IN  IF entries = <<>>
        THEN Err([msg |-> "This example row seems to be malformed, containing less than two pipes",
                  input |-> input])
        ELSE Ok([entries |-> SubSeq(entries, 1, Len(entries) - 1)])

(***************************************************************************)
(* export.rs: the C# types and the inference of the argument types.        *)
(***************************************************************************)
Digits == <<"0", "1", "2", "3", "4", "5", "6", "7", "8", "9">>
IsDigit(c) == \E d \in 1..10 : Digits[d] = c
DigitValue(c) == (CHOOSE d \in 1..10 : Digits[d] = c) - 1
AllDigits(s) == \A i \in 1..Len(s) : IsDigit(s[i])

\* The digits of i64::MAX, 9223372036854775807.
I64MaxDigits ==
    <<"9", "2", "2", "3", "3", "7", "2", "0", "3", "6",
      "8", "5", "4", "7", "7", "5", "8", "0", "7">>

RECURSIVE StripZeros(_)
StripZeros(s) == IF s # <<>> /\ Head(s) = "0" THEN StripZeros(Tail(s)) ELSE s

\* a <= b for two digit strings of one length.
RECURSIVE DigitsLeq(_, _)
DigitsLeq(a, b) ==
    IF a = <<>> THEN TRUE
    ELSE IF DigitValue(Head(a)) < DigitValue(Head(b)) THEN TRUE
    ELSE IF DigitValue(Head(a)) > DigitValue(Head(b)) THEN FALSE
    ELSE DigitsLeq(Tail(a), Tail(b))

\* input.parse::<i64>().is_ok(): an optional sign, then one digit or more,
\* the value within the 64 bits.
ParsesI64(s) ==
    LET signed == s # <<>> /\ Head(s) \in {"+", "-"}
        digits == IF signed THEN Tail(s) ELSE s
        value == StripZeros(digits)
        negative == s # <<>> /\ Head(s) = "-"
    IN  /\ digits # <<>>
        /\ AllDigits(digits)
        /\ \/ Len(value) < Len(I64MaxDigits)
           \/ /\ Len(value) = Len(I64MaxDigits)
              /\ \/ DigitsLeq(value, I64MaxDigits)
                 \/ negative /\ value = [I64MaxDigits EXCEPT ![19] = "8"]

\* ASCII lower case of the letters the float literals are made of.
LowerChar(c) ==
    CASE c = "I" -> "i" [] c = "N" -> "n" [] c = "F" -> "f" [] c = "T" -> "t"
      [] c = "Y" -> "y" [] c = "A" -> "a" [] c = "E" -> "e" [] OTHER -> c
Lower(s) == [i \in 1..Len(s) |-> LowerChar(s[i])]

\* The length of the longest prefix of s made of digits.
RECURSIVE DigitRun(_)
DigitRun(s) == IF s # <<>> /\ IsDigit(Head(s)) THEN 1 + DigitRun(Tail(s)) ELSE 0

\* input.parse::<f64>().is_ok(): an optional sign, then inf, infinity or nan
\* in any case, or a decimal number with a digit before or after its point
\* and an optional exponent.
ParsesF64(s) ==
    LET signed == s # <<>> /\ Head(s) \in {"+", "-"}
        body == IF signed THEN Tail(s) ELSE s
        whole == DigitRun(body)
        afterWhole == SubSeq(body, whole + 1, Len(body))
        pointed == afterWhole # <<>> /\ Head(afterWhole) = "."
        afterPoint == IF pointed THEN Tail(afterWhole) ELSE afterWhole
        fraction == IF pointed THEN DigitRun(afterPoint) ELSE 0
        exponent == SubSeq(afterPoint, fraction + 1, Len(afterPoint))
        expDigits == IF Len(exponent) >= 2 /\ exponent[2] \in {"+", "-"}
                     THEN SubSeq(exponent, 3, Len(exponent))
                     ELSE Tail(exponent)
    IN  \/ Lower(body) \in {<<"i", "n", "f">>, <<"n", "a", "n">>,
                            <<"i", "n", "f", "i", "n", "i", "t", "y">>}
        \/ /\ whole + fraction >= 1
           /\ \/ exponent = <<>>
              \/ /\ LowerChar(Head(exponent)) = "e"
                 /\ expDigits # <<>>
                 /\ AllDigits(expDigits)

\* input.parse::<bool>().is_ok()
ParsesBool(s) == s \in {<<"t", "r", "u", "e">>, <<"f", "a", "l", "s", "e">>}

\* CSType::from
CSTypeFrom(input) ==
    IF ParsesI64(input) THEN "Int64"
    ELSE IF ParsesF64(input) THEN "Double"
    ELSE IF ParsesBool(input) THEN "Bool"
    ELSE "String"

\* A join that keeps its second argument.
LowestCommonTypeLastWins(self, other) == other

\* CSType::lowest_common_type
LowestCommonType(self, other) == IF self = other THEN self ELSE "String"

\* Iterator::reduce with lowest_common_type, then unwrap_or(String).
RECURSIVE ReduceTypes(_, _)
ReduceTypes(acc, types) ==
    IF types = <<>> THEN acc
    ELSE ReduceTypes(LowestCommonType(acc, Head(types)), Tail(types))

BestCompatibleType(types) ==
    IF types = <<>> THEN "String" ELSE ReduceTypes(Head(types), Tail(types))

\* flat_map(|block| &block.examples): the rows of all blocks, in order.
RECURSIVE AllExamples(_)
AllExamples(blocks) ==
    IF blocks = <<>> THEN <<>>
    ELSE Head(blocks).examples \o AllExamples(Tail(blocks))

\* The type of the i-th entry of a row, String when the row has none.
EntryType(row, i) ==
    IF i <= Len(row.entries) THEN CSTypeFrom(row.entries[i]) ELSE "String"

\* calculate_arg_types
CalculateArgTypes(exampleBlocks) ==
    LET argCount == IF exampleBlocks = <<>> THEN 0
                    ELSE Len(exampleBlocks[1].labels.entries)
        rows == AllExamples(exampleBlocks)
    IN  [i \in 1..argCount |->
            BestCompatibleType([r \in 1..Len(rows) |-> EntryType(rows[r], i)])]

(***************************************************************************)
(* gherkin_tags.rs, tags.rs: the line classifier.                          *)
(***************************************************************************)
KwScenario == <<"S", "c", "e", "n", "a", "r", "i", "o">>
\* The pattern "Example " of the match: it ends with a space.
KwExample == <<"E", "x", "a", "m", "p", "l", "e", " ">>
KwExamples == <<"E", "x", "a", "m", "p", "l", "e", "s">>
KwScenarios == <<"S", "c", "e", "n", "a", "r", "i", "o", "s">>
KwScenarioOutline == <<"S", "c", "e", "n", "a", "r", "i", "o", " ", "O", "u", "t", "l", "i", "n", "e">>
KwScenarioTemplate == <<"S", "c", "e", "n", "a", "r", "i", "o", " ", "T", "e", "m", "p", "l", "a", "t", "e">>
KwFeature == <<"F", "e", "a", "t", "u", "r", "e">>
KwBackground == <<"B", "a", "c", "k", "g", "r", "o", "u", "n", "d">>
KwGiven == <<"G", "i", "v", "e", "n">>
KwWhen == <<"W", "h", "e", "n">>
KwThen == <<"T", "h", "e", "n">>
KwAnd == <<"A", "n", "d">>
KwBut == <<"B", "u", "t">>
KwBullet == <<"*">>

\* Option::None of lines.next()
None == [kind |-> "None"]
Tags(afterAtSign) == [kind |-> "Tags", tags |-> afterAtSign]
StepLine(keyword, text) == [kind |-> "StepLine", keyword |-> keyword, text |-> text]
BeginGroup(keyword, title) == [kind |-> "BeginGroup", keyword |-> keyword, title |-> title]
FreeText(text) == [kind |-> "FreeText", text |-> text]
ExampleEntry(text) == [kind |-> "ExampleEntry", text |-> text]

\* A title kept as it stands after the colon.
GroupTitleUntrimmed(after) == after

\* let title = title.trim();
GroupTitle(after) == Trim(after)

\* The first match of GherkinLine::from_str: `keyword: title`.
GroupOf(input) ==
    LET split == SplitOnce(input, ":")
        keyword == Trim(split.before)
        title == GroupTitle(split.after)
    IN  IF ~split.found THEN None
        ELSE IF keyword \in {KwScenario, KwExample} THEN BeginGroup("Scenario", title)
        ELSE IF keyword \in {KwExamples, KwScenarios} THEN BeginGroup("Examples", title)
        ELSE IF keyword \in {KwScenarioOutline, KwScenarioTemplate}
             THEN BeginGroup("ScenarioOutline", title)
        ELSE IF keyword = KwFeature THEN BeginGroup("Feature", title)
        ELSE IF keyword = KwBackground THEN BeginGroup("Background", title)
        ELSE None

\* The second match of GherkinLine::from_str: `keyword rest`.
StepOf(input) ==
    LET split == SplitOnce(input, " ")
        keyword == Trim(split.before)
        title == Trim(split.after)
    IN  IF ~split.found THEN None
        ELSE IF keyword = KwGiven THEN StepLine("Given", title)
        ELSE IF keyword = KwWhen THEN StepLine("When", title)
        ELSE IF keyword = KwThen THEN StepLine("Then", title)
        ELSE IF keyword = KwAnd THEN StepLine("And", title)
        ELSE IF keyword = KwBut THEN StepLine("But", title)
        ELSE IF keyword = KwBullet THEN StepLine("Bullet", title)
        ELSE None

\* GherkinLine::from_str
GherkinLineFromStr(raw) ==
    LET input == Trim(raw)
        at == SplitOnce(input, "@")
    IN  IF GroupOf(input).kind # "None" THEN GroupOf(input)
        ELSE IF StepOf(input).kind # "None" THEN StepOf(input)
        ELSE IF at.found /\ at.before = <<>> THEN Tags(at.after)
        ELSE IF StartsWith(input, <<"|">>) THEN ExampleEntry(input)
        ELSE FreeText(input)

\* A collection of the tags that leaves out the empty names.
TagsOfNamed(line) ==
    LET pieces == SplitOn(line.tags, {"@"}) IN
    SelectSeq([i \in 1..Len(pieces) |-> Trim(pieces[i])], LAMBDA tag : tag # <<>>)

\* GherkinTags::into_iter, collected: the pieces between the @ signs, trimmed.
TagsOf(line) ==
    LET pieces == SplitOn(line.tags, {"@"}) IN
    [i \in 1..Len(pieces) |-> Trim(pieces[i])]

(***************************************************************************)
(* feature.rs: the structural parser. A parse is one call of               *)
(* Feature::from_str; s = [pc, st, result] is the state of the call: pc    *)
(* the lines.next() it waits at, st the locals of the parse functions in   *)
(* flight, result what it returned. Each operator below is the code that   *)
(* runs from one lines.next() to the next.                                 *)
(***************************************************************************)
InitLocals ==
    [fn |-> "Feature::from_str",
     feature_tags |-> <<>>,    \* Feature::from_str: tags
     name |-> <<>>,            \* Feature::from_lines: name
     free_text |-> <<>>,
     tags |-> <<>>,            \* Feature::from_lines: tags
     item_tags |-> <<>>,
     items |-> <<>>,
     background |-> <<>>,      \* Option<Scenario>: empty, or the one scenario
     group_kw |-> "",
     group_name |-> <<>>,
     steps |-> <<>>,           \* Scenario / ScenarioOutline ::from_lines: steps
     outline_tags |-> <<>>,    \* ScenarioOutline::from_lines: tags
     example_blocks |-> <<>>,
     labels |-> [entries |-> <<>>],   \* ExampleBlock::from_lines: labels
     examples |-> <<>>]

\* bail!, or `?` on an Err: the call returns the error.
Fail(s, err) == [s EXCEPT !.pc = "done", !.result = err]

\* Feature::from_str, after from_str_lines returned Ok: the tags are set.
Finish(s) ==
    [s EXCEPT !.pc = "done",
              !.result = Ok([name |-> s.st.name,
                             free_text |-> s.st.free_text,
                             items |-> s.st.items,
                             background |-> s.st.background,
                             tags |-> s.st.feature_tags])]

\* The context Feature::from_lines adds to an error of
\* ScenarioOutline::from_lines.
OutlineContext(s, err) ==
    Context(err, [msg |-> "Failed to parse Scenario Outline",
                  outline |-> s.st.group_name,
                  feature |-> s.st.name])

\* The context ScenarioOutline::from_lines adds to an error of
\* ExampleBlock::from_lines.
BlockContext(s, err) ==
    Context(err, [msg |-> "Failed to parse example block",
                  number |-> Len(s.st.example_blocks) + 1,
                  outline |-> s.st.group_name])

\* Step::new(kw, step_text).context("Invalid step ...")
DecodeStep(s, line) ==
    Context(StepNew(line.keyword, line.text),
            [msg |-> "Invalid step",
             keyword |-> line.keyword,
             step_text |-> line.text,
             scenario |-> s.st.group_name])

\* Feature::from_lines: the head of the dispatch loop, the match on group_kw
\* up to the first lines.next() of the parse function it calls.
Dispatch(s) ==
    IF s.st.group_kw = "ScenarioOutline"
    THEN [s EXCEPT !.pc = "outline_steps",
                   !.st.steps = <<>>,
                   !.st.outline_tags = <<>>,
                   !.st.example_blocks = <<>>]
    ELSE IF s.st.group_kw \in {"Scenario", "Background"}
    THEN [s EXCEPT !.pc = "scenario", !.st.steps = <<>>]
    ELSE Fail(s, Err([msg |-> "Unexpected keyword at top level of feature",
                      group_kw |-> s.st.group_kw,
                      group_name |-> s.st.group_name]))

\* A tail of the dispatch loop that goes round again at the end of the
\* input.
AfterItemAwaits(s, line) ==
    IF line.kind = "None" THEN Dispatch(s)
    ELSE IF line.kind = "Tags"
    THEN Dispatch([s EXCEPT !.st.item_tags = @ \o TagsOf(line)])
    ELSE IF line.kind = "BeginGroup"
    THEN Dispatch([s EXCEPT !.st.group_kw = line.keyword,
                            !.st.group_name = line.title])
    ELSE Fail(s, Err([msg |-> "Unexpected content encountered while parsing items of Feature",
                      feature |-> s.st.name,
                      line |-> line]))

\* Feature::from_lines: the tail of the dispatch loop, on the line the parse
\* function returned, and the next head.
AfterItem(s, line) ==
    IF line.kind = "None" THEN Finish(s)
    ELSE IF line.kind = "Tags"
    THEN Dispatch([s EXCEPT !.st.item_tags = @ \o TagsOf(line)])
    ELSE IF line.kind = "BeginGroup"
    THEN Dispatch([s EXCEPT !.st.group_kw = line.keyword,
                            !.st.group_name = line.title])
    ELSE Fail(s, Err([msg |-> "Unexpected content encountered while parsing items of Feature",
                      feature |-> s.st.name,
                      line |-> line]))

\* A Background arm that lets a later Background take the place of the
\* recorded one.
ReturnScenarioLastWins(s, line) ==
    LET scenario == [name |-> s.st.group_name, steps |-> s.st.steps, tags |-> <<>>] IN
    IF s.st.group_kw = "Scenario"
    THEN AfterItem([s EXCEPT !.st.items =
                        Append(@, [kind |-> "Bare"] @@ scenario)], line)
    ELSE AfterItem([s EXCEPT !.st.background = <<scenario>>], line)

\* Scenario::from_lines returns (scenario, terminating_line) to the Scenario
\* or Background arm of Feature::from_lines.
ReturnScenario(s, line) ==
    LET scenario == [name |-> s.st.group_name, steps |-> s.st.steps, tags |-> <<>>] IN
    IF s.st.group_kw = "Scenario"
    THEN AfterItem([s EXCEPT !.st.items =
                        Append(@, [kind |-> "Bare"] @@ scenario)], line)
    ELSE IF s.st.background = <<>>
    THEN AfterItem([s EXCEPT !.st.background = <<scenario>>], line)
    ELSE Fail(s, Err([msg |-> "another background was already declared for that feature",
                      feature |-> s.st.name,
                      background |-> scenario.name,
                      existing |-> s.st.background[1].name]))

\* ScenarioOutline::from_lines returns (outline, terminating_line) to the
\* ScenarioOutline arm of Feature::from_lines, which drains its tags into it.
ReturnOutline(s, line) ==
    LET data == [kind |-> "Outline",
                 name |-> s.st.group_name,
                 steps |-> s.st.steps,
                 example_blocks |-> s.st.example_blocks,
                 tags |-> s.st.tags]
    IN  AfterItem([s EXCEPT !.st.items = Append(@, data), !.st.tags = <<>>], line)

\* A title check that lets every title pass.
BlockTitledNever(title) == FALSE

\* ExampleBlock::from_lines: !title.trim().is_empty()
BlockTitled(title) == Trim(title) # <<>>

\* ScenarioOutline::from_lines: one turn of its second loop on `line`, up to
\* the next lines.next().
OutlineLine(s, line) ==
    IF line.kind = "Tags"
    THEN [s EXCEPT !.pc = "outline_tags",
                   !.st.outline_tags = @ \o TagsOf(line)]
    ELSE IF line.kind = "BeginGroup" /\ line.keyword = "Examples"
    THEN IF BlockTitled(line.title)
         THEN Fail(s, OutlineContext(s, BlockContext(s,
                  Err([msg |-> "`Examples:` or `Scenarios:` blocks can't have a title",
                       title |-> line.title]))))
         ELSE [s EXCEPT !.pc = "labels",
                        !.st.labels = [entries |-> <<>>],
                        !.st.examples = <<>>]
    ELSE ReturnOutline(s, line)

\* A return of a block for which the end of the input is an error.
ReturnBlockNeedsTerminator(s, line) ==
    LET block == [examples |-> s.st.examples,
                  labels |-> s.st.labels,
                  tags |-> s.st.outline_tags]
        pushed == [s EXCEPT !.st.example_blocks = Append(@, block),
                            !.st.outline_tags = <<>>]
    IN  IF line.kind = "None"
        THEN Fail(s, OutlineContext(s, BlockContext(s,
                 Err([msg |-> "Unexpected EOF in data table"]))))
        ELSE OutlineLine(pushed, line)

\* A return of a block that leaves the tags in the buffer.
ReturnBlockKeepsTags(s, line) ==
    LET block == [examples |-> s.st.examples,
                  labels |-> s.st.labels,
                  tags |-> s.st.outline_tags]
        pushed == [s EXCEPT !.st.example_blocks = Append(@, block)]
    IN  IF line.kind = "None" THEN ReturnOutline(pushed, None)
        ELSE OutlineLine(pushed, line)

\* ExampleBlock::from_lines returns (example_block, terminator) to
\* ScenarioOutline::from_lines, which drains its tags into the block.
ReturnBlock(s, line) ==
    LET block == [examples |-> s.st.examples,
                  labels |-> s.st.labels,
                  tags |-> s.st.outline_tags]
        pushed == [s EXCEPT !.st.example_blocks = Append(@, block),
                            !.st.outline_tags = <<>>]
    IN  IF line.kind = "None" THEN ReturnOutline(pushed, None)
        ELSE OutlineLine(pushed, line)

\* Feature::from_str: the loop that reads the tags and the Feature header.
FromStrLine(s, line) ==
    IF line.kind = "None"
    THEN Fail(s, Err([msg |-> IF s.st.feature_tags = <<>>
                              THEN "Feature file was empty."
                              ELSE "Unexpected EOF while reading feature tags."]))
    ELSE IF line.kind = "Tags"
    THEN [s EXCEPT !.st.feature_tags = @ \o TagsOf(line)]
    ELSE IF line.kind = "BeginGroup" /\ line.keyword = "Feature"
    THEN [s EXCEPT !.pc = "description", !.st.name = line.title]
    ELSE Fail(s, Err([msg |-> "Unexpected content while parsing feature tags",
                      line |-> line]))

\* A description loop for which the end of the input ends the feature.
DescriptionLineEndsFeature(s, line) ==
    IF line.kind = "None" THEN Finish(s)
    ELSE IF line.kind = "FreeText"
    THEN [s EXCEPT !.st.free_text = Append(@, line.text)]
    ELSE IF line.kind = "Tags"
    THEN [s EXCEPT !.st.tags = @ \o TagsOf(line)]
    ELSE IF line.kind = "BeginGroup"
    THEN Dispatch([s EXCEPT !.st.group_kw = line.keyword,
                            !.st.group_name = line.title])
    ELSE Fail(s, Err([msg |-> "Unexpected content in text description for feature",
                      feature |-> s.st.name,
                      line |-> line]))

\* A description loop that puts each line of free text before the others.
DescriptionLinePrepends(s, line) ==
    IF line.kind = "None"
    THEN Fail(s, Err([msg |-> "Feature terminated without any scenarios."]))
    ELSE IF line.kind = "FreeText"
    THEN [s EXCEPT !.st.free_text = <<line.text>> \o @]
    ELSE IF line.kind = "Tags"
    THEN [s EXCEPT !.st.tags = @ \o TagsOf(line)]
    ELSE IF line.kind = "BeginGroup"
    THEN Dispatch([s EXCEPT !.st.group_kw = line.keyword,
                            !.st.group_name = line.title])
    ELSE Fail(s, Err([msg |-> "Unexpected content in text description for feature",
                      feature |-> s.st.name,
                      line |-> line]))

\* Feature::from_lines: the loop that reads the description.
DescriptionLine(s, line) ==
    IF line.kind = "None"
    THEN Fail(s, Err([msg |-> "Feature terminated without any scenarios."]))
    ELSE IF line.kind = "FreeText"
    THEN [s EXCEPT !.st.free_text = Append(@, line.text)]
    ELSE IF line.kind = "Tags"
    THEN [s EXCEPT !.st.tags = @ \o TagsOf(line)]
    ELSE IF line.kind = "BeginGroup"
    THEN Dispatch([s EXCEPT !.st.group_kw = line.keyword,
                            !.st.group_name = line.title])
    ELSE Fail(s, Err([msg |-> "Unexpected content in text description for feature",
                      feature |-> s.st.name,
                      line |-> line]))

\* Scenario::from_lines: its loop.
ScenarioLine(s, line) ==
    IF line.kind = "StepLine"
    THEN LET step == DecodeStep(s, line) IN
         IF IsErr(step) THEN Fail(s, step)
         ELSE [s EXCEPT !.st.steps = Append(@, step.val)]
    ELSE ReturnScenario(s, line)

\* A first loop that hands every line that is no step to the second loop.
OutlineStepsLineLenient(s, line) ==
    IF line.kind = "StepLine"
    THEN LET step == DecodeStep(s, line) IN
         IF IsErr(step) THEN Fail(s, OutlineContext(s, step))
         ELSE [s EXCEPT !.st.steps = Append(@, step.val)]
    ELSE OutlineLine(s, line)

\* ScenarioOutline::from_lines: its first loop.
OutlineStepsLine(s, line) ==
    IF line.kind = "StepLine"
    THEN LET step == DecodeStep(s, line) IN
         IF IsErr(step) THEN Fail(s, OutlineContext(s, step))
         ELSE [s EXCEPT !.st.steps = Append(@, step.val)]
    ELSE IF line.kind \in {"Tags", "BeginGroup"}
    THEN OutlineLine(s, line)
    ELSE Fail(s, OutlineContext(s,
             Err([msg |-> "Unexpected line while reading steps of scenario outline",
                  line |-> line,
                  outline |-> s.st.group_name])))

\* A Tags arm for which the end of the input ends the outline.
OutlineTagsLineTolerant(s, line) ==
    IF line.kind = "None" THEN ReturnOutline(s, None)
    ELSE OutlineLine(s, line)

\* ScenarioOutline::from_lines: the lines.next() of the Tags arm of its
\* second loop.
OutlineTagsLine(s, line) ==
    IF line.kind = "None"
    THEN Fail(s, OutlineContext(s,
             Err([msg |-> "Unexpected EOF after reading tag",
                  last_tag |-> s.st.outline_tags[Len(s.st.outline_tags)]])))
    ELSE OutlineLine(s, line)

\* ExampleBlock::from_lines: the label row.
LabelsLine(s, line) ==
    IF line.kind = "None"
    THEN Fail(s, OutlineContext(s, BlockContext(s,
             Err([msg |-> "Expected to find the labels for an example table, but got EOF."]))))
    ELSE IF line.kind = "ExampleEntry"
    THEN LET labels == Context(ExampleRowFromStr(line.text),
                           [msg |-> "Couldn't parse this row of labels for an example table",
                            label_line |-> line])
         IN  IF IsErr(labels) THEN Fail(s, OutlineContext(s, BlockContext(s, labels)))
             ELSE [s EXCEPT !.pc = "rows", !.st.labels = labels.val]
    ELSE Fail(s, OutlineContext(s, BlockContext(s,
             Err([msg |-> "Expected to find labels for a data table, got this instead",
                  label_line |-> line]))))

\* A check that lets every row pass.
RowFitsAlways(labels, exampleRow) == TRUE

\* A check that lets a row pass that is no longer than the labels.
RowFitsOrShorter(labels, exampleRow) ==
    Len(exampleRow.entries) <= Len(labels.entries)

\* The check of one example row against the labels.
RowFits(labels, exampleRow) == Len(labels.entries) = Len(exampleRow.entries)

\* ExampleBlock::from_lines: its loop over the example rows.
RowsLine(s, line) ==
    IF line.kind \in {"None", "BeginGroup", "Tags"} THEN ReturnBlock(s, line)
    ELSE IF line.kind = "ExampleEntry"
    THEN LET exampleRow == Context(ExampleRowFromStr(line.text),
                               [msg |-> "Failed to read example row",
                                row |-> line.text])
         IN  IF IsErr(exampleRow)
             THEN Fail(s, OutlineContext(s, BlockContext(s, exampleRow)))
             ELSE IF ~RowFits(s.st.labels, exampleRow.val)
             THEN Fail(s, OutlineContext(s, BlockContext(s,
                      Err([msg |-> "Encountered row of length in data table, which was not consistent with the number of labels",
                           row_length |-> Len(exampleRow.val.entries),
                           labels_length |-> Len(s.st.labels.entries),
                           labels |-> s.st.labels.entries,
                           examples |-> exampleRow.val.entries]))))
             ELSE [s EXCEPT !.st.examples = Append(@, exampleRow.val)]
    ELSE Fail(s, OutlineContext(s, BlockContext(s,
             Err([msg |-> "Did not expect this line inside data table",
                  line |-> line]))))

(***************************************************************************)
(* feature.rs, main.rs: the export of a parsed feature.                    *)
(***************************************************************************)
\* block.tags.join(",")
RECURSIVE JoinTags(_)
JoinTags(tags) ==
    IF tags = <<>> THEN <<>>
    ELSE IF Len(tags) = 1 THEN tags[1]
    ELSE tags[1] \o <<",">> \o JoinTags(Tail(tags))

\* NUnit::write_test_case, as far as the types decide it: the types zipped
\* with the entries of the row, and the category.
WriteTestCase(argTypes, entries, category) ==
    [args |-> [i \in 1..Min(Len(argTypes), Len(entries)) |-> argTypes[i]],
     category |-> category]

\* ScenarioOutline::export: the test cases, block by block and row by row.
RECURSIVE TestCases(_, _)
TestCases(blocks, argTypes) ==
    IF blocks = <<>> THEN <<>>
    ELSE [r \in 1..Len(blocks[1].examples) |->
             WriteTestCase(argTypes, blocks[1].examples[r].entries,
                           JoinTags(blocks[1].tags))]
         \o TestCases(Tail(blocks), argTypes)

\* FeatureItem::export, as far as the types decide it: the test cases of an
\* outline and the types of the parameters of its method, one per label of
\* its first block.
ExportItem(item) ==
    IF item.kind = "Bare" THEN [kind |-> "Test"]
    ELSE LET argTypes == CalculateArgTypes(item.example_blocks) IN
         [kind |-> "TestCases",
          test_cases |-> TestCases(item.example_blocks, argTypes),
          parameters |-> [i \in 1..Len(item.example_blocks[1].labels.entries) |->
                             IF i <= Len(argTypes) THEN argTypes[i] ELSE "String"]]

\* self.example_blocks[0] of ScenarioOutline::export: out of bounds when
\* the outline has no block.
ExportPanics(feature) ==
    \E i \in 1..Len(feature.items) :
        /\ feature.items[i].kind = "Outline"
        /\ feature.items[i].example_blocks = <<>>

\* Feature::export
ExportFeature(feature) ==
    IF ExportPanics(feature)
    THEN [tag |-> "panic"]
    ELSE Ok([i \in 1..Len(feature.items) |-> ExportItem(feature.items[i])])

(***************************************************************************)
(* The parse as a state machine. The lines iterator of Feature::from_str   *)
(* yields the lines of the input one by one; the input is whatever the     *)
(* reads find: each read draws the next line, or the end of the input.     *)
(***************************************************************************)
\* The end of the input, in the place of a line (no line is one character
\* "EOF").
EndOfInput == <<"EOF">>

\* A filter that drops the blank lines only.
FilteredBlankOnly(raw) == Trim(raw) = <<>>

\* The filter of Feature::from_str: blank lines and comments are dropped.
Filtered(raw) == Trim(raw) = <<>> \/ StartsWith(Trim(raw), <<"#">>)

\* The parse resumes at the lines.next() it waits at, with what that yields.
Resume(s, line) ==
    CASE s.pc = "feature_tags" -> FromStrLine(s, line)
      [] s.pc = "description" -> DescriptionLine(s, line)
      [] s.pc = "scenario" -> ScenarioLine(s, line)
      [] s.pc = "outline_steps" -> OutlineStepsLine(s, line)
      [] s.pc = "outline_tags" -> OutlineTagsLine(s, line)
      [] s.pc = "labels" -> LabelsLine(s, line)
      [] s.pc = "rows" -> RowsLine(s, line)

\* One lines.next() at position `at`, and the code up to the next one. A
\* filtered line is consumed inside the iterator.
Read(offered, at) ==
    /\ pc = at
    /\ st.fn = "Feature::from_str"
    /\ \E raw \in offered :
          /\ doc' = Append(doc, raw)
          /\ IF raw # EndOfInput /\ Filtered(raw)
             THEN UNCHANGED <<pc, st, result>>
             ELSE LET line == IF raw = EndOfInput THEN None
                              ELSE GherkinLineFromStr(Trim(raw))
                      s == Resume([pc |-> pc, st |-> st, result |-> result], line)
                  IN  /\ pc' = s.pc
                      /\ st' = s.st
                      /\ result' = s.result
    /\ UNCHANGED <<arg, output>>

FeatureFromStr(offered) == Read(offered, "feature_tags")
FeatureFromLines(offered) == Read(offered, "description")
ScenarioFromLines(offered) == Read(offered, "scenario")
OutlineSteps(offered) == Read(offered, "outline_steps")
OutlineTags(offered) == Read(offered, "outline_tags")
ExampleBlockLabels(offered) == Read(offered, "labels")
ExampleBlockRows(offered) == Read(offered, "rows")

(***************************************************************************)
(* main.rs: the batch driver, on one input file. output is what the driver *)
(* has made of the file: the files written next to it and the two counts.  *)
(***************************************************************************)
\* main_inner before the file: nothing written for it, the counts as the
\* files before it left them.
\* The file is known by its place among the paths of the pattern, the files
\* before it having been counted once each.
Driver(successCount, failureCount) ==
    [name |-> successCount + failureCount + 1,
     files |-> {},
     success_count |-> successCount,
     failure_count |-> failureCount]

RECURSIVE Reverse(_)
Reverse(s) == IF s = <<>> THEN <<>> ELSE Reverse(Tail(s)) \o <<Head(s)>>

\* format!("{:#}", error): the contexts from the outermost to the cause.
FormatError(error) == Reverse(error.chain)

\* main_inner, the Ok arm: the .cs file is opened, the export is written to
\* it and the success count grows. The file is created before the feature
\* is exported: an export that panics leaves it empty and ends the process.
Export ==
    /\ pc = "done"
    /\ st.fn = "Feature::from_str"
    /\ IsOk(result)
    /\ LET exported == ExportFeature(result.val) IN
          IF IsOk(exported)
          THEN /\ output' = [output EXCEPT
                                !.files = @ \cup {[name |-> output.name, ext |-> "cs",
                                                    content |-> exported.val]},
                                !.success_count = @ + 1]
               /\ pc' = "exported"
          ELSE /\ output' = [output EXCEPT
                                !.files = @ \cup {[name |-> output.name, ext |-> "cs",
                                                    content |-> <<>>]}]
               /\ pc' = "panicked"
    /\ UNCHANGED <<doc, st, result, arg>>

\* main_inner, the Err arm: the chained error is written to the .log file
\* and the failure count grows.
WriteLog ==
    /\ pc = "done"
    /\ st.fn = "Feature::from_str"
    /\ IsErr(result)
    /\ output' = [output EXCEPT
                     !.files = @ \cup {[name |-> output.name, ext |-> "log",
                                         content |-> FormatError(result)]},
                     !.failure_count = @ + 1]
    /\ pc' = "logged"
    /\ UNCHANGED <<doc, st, result, arg>>

\* The driver is through with the file.
FileHandled == pc \in {"exported", "logged", "panicked"}

InitParse ==
    /\ pc = "feature_tags"
    /\ st = InitLocals
    /\ doc = <<>>
    /\ result = NoResult
    /\ arg = <<>>
    /\ output = Driver(0, 0)

\* The lines the inputs of Spec are made of.
Catalogue ==
    { <<"F", "e", "a", "t", "u", "r", "e", ":", " ", "F">>,
      <<"B", "a", "c", "k", "g", "r", "o", "u", "n", "d", ":", " ", "B">>,
      <<"S", "c", "e", "n", "a", "r", "i", "o", ":", " ", "S">>,
      <<"S", "c", "e", "n", "a", "r", "i", "o", " ", "O", "u", "t", "l", "i", "n", "e", ":", " ", "O">>,
      <<"E", "x", "a", "m", "p", "l", "e", "s", ":">>,
      <<"E", "x", "a", "m", "p", "l", "e", "s", ":", " ", "x">>,
      <<"G", "i", "v", "e", "n", " ", "a", " ", "<", "v", ">">>,
      <<"W", "h", "e", "n", " ", "<">>,
      <<"@", "t">>,
      <<"|", "a", "|", "b", "|">>,
      <<"|", "1", "|">>,
      <<"t", "e", "x", "t">> }

\* Any input of at most MaxLines lines of the catalogue.
Offered ==
    IF Len(doc) < MaxLines THEN Catalogue \cup {EndOfInput} ELSE {EndOfInput}

Next ==
    \/ FeatureFromStr(Offered)
    \/ FeatureFromLines(Offered)
    \/ ScenarioFromLines(Offered)
    \/ OutlineSteps(Offered)
    \/ OutlineTags(Offered)
    \/ ExampleBlockLabels(Offered)
    \/ ExampleBlockRows(Offered)
    \/ Export

Spec == InitParse /\ [][Next]_vars

\* The lines the inputs of SpecGroups are made of: the groups of a feature
\* and the tag lines around them.
GroupCatalogue ==
    { <<"F", "e", "a", "t", "u", "r", "e", ":", " ", "F">>,
      <<"B", "a", "c", "k", "g", "r", "o", "u", "n", "d", ":", " ", "B">>,
      <<"B", "a", "c", "k", "g", "r", "o", "u", "n", "d", ":", " ", "C">>,
      <<"S", "c", "e", "n", "a", "r", "i", "o", ":", " ", "S">>,
      <<"S", "c", "e", "n", "a", "r", "i", "o", " ", "O", "u", "t", "l", "i", "n", "e", ":", " ", "O">>,
      <<"E", "x", "a", "m", "p", "l", "e", "s", ":">>,
      <<"G", "i", "v", "e", "n", " ", "a">>,
      <<"@", "t">>,
      <<"@", "u", " ", "@", "v">>,
      <<"|", "a", "|">>,
      <<"t", "e", "x", "t">> }

\* Any input of at most MaxGroupLines lines of the group catalogue.
OfferedGroups ==
    IF Len(doc) < MaxGroupLines THEN GroupCatalogue \cup {EndOfInput} ELSE {EndOfInput}

NextGroups ==
    \/ FeatureFromStr(OfferedGroups)
    \/ FeatureFromLines(OfferedGroups)
    \/ ScenarioFromLines(OfferedGroups)
    \/ OutlineSteps(OfferedGroups)
    \/ OutlineTags(OfferedGroups)
    \/ ExampleBlockLabels(OfferedGroups)
    \/ ExampleBlockRows(OfferedGroups)
    \/ Export

SpecGroups == InitParse /\ [][NextGroups]_vars

\* The lines the inputs of SpecBlocks are made of: an outline, its example
\* blocks and the tag lines around them.
BlockCatalogue ==
    { <<"F", "e", "a", "t", "u", "r", "e", ":", " ", "F">>,
      <<"S", "c", "e", "n", "a", "r", "i", "o", ":", " ", "S">>,
      <<"S", "c", "e", "n", "a", "r", "i", "o", " ", "O", "u", "t", "l", "i", "n", "e", ":", " ", "O">>,
      <<"E", "x", "a", "m", "p", "l", "e", "s", ":">>,
      <<"@", "t">>,
      <<"@", "u", " ", "@", "v">>,
      <<"|", "a", "|">> }

\* Any input of at most MaxBlockLines lines of the block catalogue.
OfferedBlocks ==
    IF Len(doc) < MaxBlockLines THEN BlockCatalogue \cup {EndOfInput} ELSE {EndOfInput}

NextBlocks ==
    \/ FeatureFromStr(OfferedBlocks)
    \/ FeatureFromLines(OfferedBlocks)
    \/ ScenarioFromLines(OfferedBlocks)
    \/ OutlineSteps(OfferedBlocks)
    \/ OutlineTags(OfferedBlocks)
    \/ ExampleBlockLabels(OfferedBlocks)
    \/ ExampleBlockRows(OfferedBlocks)
    \/ Export

SpecBlocks == InitParse /\ [][NextBlocks]_vars

\* The lines the inputs of SpecQuiet are made of: lines of the kinds a
\* feature is built of, a blank line and a comment line.
QuietCatalogue ==
    { <<"F", "e", "a", "t", "u", "r", "e", ":", " ", "F">>,
      <<"S", "c", "e", "n", "a", "r", "i", "o", ":", " ", "S">>,
      <<"S", "c", "e", "n", "a", "r", "i", "o", " ", "O", "u", "t", "l", "i", "n", "e", ":", " ", "O">>,
      <<"E", "x", "a", "m", "p", "l", "e", "s", ":">>,
      <<"G", "i", "v", "e", "n", " ", "a">>,
      <<"@", "t">>,
      <<"|", "a", "|">>,
      <<" ", " ">>,
      <<" ", " ", "#", " ", "S", "c", "e", "n", "a", "r", "i", "o", ":", " ", "S">> }

\* Any input of at most MaxQuietLines lines of the quiet catalogue.
OfferedQuiet ==
    IF Len(doc) < MaxQuietLines THEN QuietCatalogue \cup {EndOfInput} ELSE {EndOfInput}

NextQuiet ==
    \/ FeatureFromStr(OfferedQuiet)
    \/ FeatureFromLines(OfferedQuiet)
    \/ ScenarioFromLines(OfferedQuiet)
    \/ OutlineSteps(OfferedQuiet)
    \/ OutlineTags(OfferedQuiet)
    \/ ExampleBlockLabels(OfferedQuiet)
    \/ ExampleBlockRows(OfferedQuiet)
    \/ Export

SpecQuiet == InitParse /\ [][NextQuiet]_vars

\* Any input of at most MaxBatchLines lines of the catalogue.
OfferedBatch ==
    IF Len(doc) < MaxBatchLines THEN Catalogue \cup {EndOfInput} ELSE {EndOfInput}

\* The driver comes to the file with any counts: arg keeps them.
InitBatch ==
    /\ pc = "feature_tags"
    /\ st = InitLocals
    /\ doc = <<>>
    /\ result = NoResult
    /\ arg \in {Driver(s, f) : s, f \in 0..MaxFilesBefore}
    /\ output = arg

NextBatch ==
    \/ FeatureFromStr(OfferedBatch)
    \/ FeatureFromLines(OfferedBatch)
    \/ ScenarioFromLines(OfferedBatch)
    \/ OutlineSteps(OfferedBatch)
    \/ OutlineTags(OfferedBatch)
    \/ ExampleBlockLabels(OfferedBatch)
    \/ ExampleBlockRows(OfferedBatch)
    \/ Export
    \/ WriteLog

SpecBatch == InitBatch /\ [][NextBatch]_vars

(***************************************************************************)
(* tests.rs, main.rs (mod tests): the inputs of the shape of the two       *)
(* tests. A Feature header, a Scenario with steps, a Scenario Outline with *)
(* steps and example blocks, each block with or without a tag line before  *)
(* it, each a label row and rows as wide as the label row.                 *)
(***************************************************************************)
ShapeFeature == <<" ", " ", " ", " ", "F", "e", "a", "t", "u", "r", "e", ":", " ", "F", "a", "r", "m", " ", "a", "c", "t", "i", "v", "i", "t", "i", "e", "s">>
ShapeScenario == <<" ", " ", " ", " ", "S", "c", "e", "n", "a", "r", "i", "o", ":", " ", "S", "h", "a", "v", "e", " ", "a", " ", "y", "a", "k">>
ShapeOutline == <<" ", " ", " ", " ", "S", "c", "e", "n", "a", "r", "i", "o", " ", "O", "u", "t", "l", "i", "n", "e", ":", " ", "S", "h", "a", "v", "e", " ", "a", "n", " ", "a", "n", "i", "m", "a", "l">>
ShapeExamples == <<" ", " ", " ", " ", "E", "x", "a", "m", "p", "l", "e", "s", ":">>
ShapeTag == <<" ", " ", " ", " ", "@", "M", "a", "m", "m", "a", "l">>
ShapeSteps == { <<" ", " ", " ", " ", " ", " ", " ", " ", "G", "i", "v", "e", "n", " ", "I", " ", "h", "a", "v", "e", " ", "a", " ", "y", "a", "k">>,
                <<" ", " ", " ", " ", " ", " ", " ", " ", "T", "h", "e", "n", " ", "I", " ", "h", "e", "a", "r", " ", "a", " ", "<", "n", "o", "i", "s", "e", ">", " ", "h", "e", "r", "e">> }

\* The label rows, each with the rows of its width.
ShapeRows ==
    [labels \in { <<"|", " ", "a", "n", "i", "m", "a", "l", " ", "|">>, <<"|", " ", "d", "u", "c", "k", " ", " ", " ", " ", "|", " ", "q", "u", "a", "c", "k", " ", "|">> } |->
        IF labels = <<"|", " ", "a", "n", "i", "m", "a", "l", " ", "|">>
        THEN { <<"|", " ", "c", "o", "w", " ", "|">> }
        ELSE { <<"|", " ", "c", "o", "w", " ", " ", " ", " ", " ", "|", " ", "m", "o", "o", " ", " ", " ", "|">>, <<"|", " ", "c", "h", "i", "c", "k", "e", "n", " ", "|", " ", "c", "l", "u", "c", "k", " ", "|">> }]

\* Where in the shape a line leaves the input, and the lines that may follow
\* there.
ShapeFollowers(place) ==
    CASE place.at = "start" -> {ShapeFeature}
      [] place.at = "feature" -> {ShapeScenario}
      [] place.at = "scenario_header" -> ShapeSteps
      [] place.at = "scenario_steps" -> ShapeSteps \cup {ShapeOutline}
      [] place.at = "outline_header" -> ShapeSteps
      [] place.at = "outline_steps" -> ShapeSteps \cup {ShapeTag, ShapeExamples}
      [] place.at = "tag" -> {ShapeExamples}
      [] place.at = "examples" -> DOMAIN ShapeRows
      [] place.at = "rows" ->
             ShapeRows[place.labels] \cup {ShapeTag, ShapeExamples, EndOfInput}
      [] OTHER -> {}

ShapeAdvance(place, line) ==
    IF line \notin ShapeFollowers(place) THEN [at |-> "off"]
    ELSE IF line = EndOfInput THEN [at |-> "end"]
    ELSE IF line = ShapeFeature THEN [at |-> "feature"]
    ELSE IF line = ShapeScenario THEN [at |-> "scenario_header"]
    ELSE IF line = ShapeOutline THEN [at |-> "outline_header"]
    ELSE IF line = ShapeTag THEN [at |-> "tag"]
    ELSE IF line = ShapeExamples THEN [at |-> "examples"]
    ELSE IF place.at = "examples" THEN [at |-> "rows", labels |-> line]
    ELSE IF place.at = "rows" THEN place
    ELSE IF place.at \in {"scenario_header", "scenario_steps"}
    THEN [at |-> "scenario_steps"]
    ELSE [at |-> "outline_steps"]

RECURSIVE ShapePlace(_)
ShapePlace(lines) ==
    IF lines = <<>> THEN [at |-> "start"]
    ELSE ShapeAdvance(ShapePlace(SubSeq(lines, 1, Len(lines) - 1)), lines[Len(lines)])

\* An input of the shape, with its end.
TestShaped(lines) == ShapePlace(lines).at = "end"

\* Any input of the shape of at most MaxShapeLines lines.
OfferedShape ==
    IF Len(doc) < MaxShapeLines THEN ShapeFollowers(ShapePlace(doc))
    ELSE ShapeFollowers(ShapePlace(doc)) \cap {EndOfInput}

NextShape ==
    \/ FeatureFromStr(OfferedShape)
    \/ FeatureFromLines(OfferedShape)
    \/ ScenarioFromLines(OfferedShape)
    \/ OutlineSteps(OfferedShape)
    \/ OutlineTags(OfferedShape)
    \/ ExampleBlockLabels(OfferedShape)
    \/ ExampleBlockRows(OfferedShape)
    \/ Export

SpecShape == InitParse /\ [][NextShape]_vars

\* The lines the inputs of SpecProse are made of: a feature, its description
\* and the lines that may stray into it.
ProseCatalogue ==
    { <<"F", "e", "a", "t", "u", "r", "e", ":", " ", "F">>,
      <<"S", "c", "e", "n", "a", "r", "i", "o", ":", " ", "S">>,
      <<"t", "e", "x", "t">>,
      <<"m", "o", "r", "e">>,
      <<"G", "i", "v", "e", "n", " ", "a">>,
      <<"|", "a", "|">>,
      <<"@", "t">> }

\* Any input of at most MaxProseLines lines of the prose catalogue.
OfferedProse ==
    IF Len(doc) < MaxProseLines THEN ProseCatalogue \cup {EndOfInput} ELSE {EndOfInput}

NextProse ==
    \/ FeatureFromStr(OfferedProse)
    \/ FeatureFromLines(OfferedProse)
    \/ ScenarioFromLines(OfferedProse)
    \/ Export

SpecProse == InitParse /\ [][NextProse]_vars

\* The lines the inputs of SpecTable are made of: an outline, its example
\* blocks and table rows with two pipes, one pipe and one pipe before a text.
TableCatalogue ==
    { <<"F", "e", "a", "t", "u", "r", "e", ":", " ", "F">>,
      <<"S", "c", "e", "n", "a", "r", "i", "o", " ", "O", "u", "t", "l", "i", "n", "e", ":", " ", "O">>,
      <<"E", "x", "a", "m", "p", "l", "e", "s", ":">>,
      <<"|", "a", "|">>,
      <<"|", "a">>,
      <<"|">> }

\* Any input of at most MaxTableLines lines of the table catalogue.
OfferedTable ==
    IF Len(doc) < MaxTableLines THEN TableCatalogue \cup {EndOfInput} ELSE {EndOfInput}

NextTable ==
    \/ FeatureFromStr(OfferedTable)
    \/ FeatureFromLines(OfferedTable)
    \/ OutlineSteps(OfferedTable)
    \/ ExampleBlockLabels(OfferedTable)
    \/ ExampleBlockRows(OfferedTable)
    \/ Export

SpecTable == InitParse /\ [][NextTable]_vars

(***************************************************************************)
(* main.rs: the batch driver over the paths of the input pattern, one file *)
(* after the other. arg.paths is the number of files the pattern matches.  *)
(***************************************************************************)
MaxPaths == 2
MaxRunLines == 3

\* The lines the files of SpecRun are made of.
RunCatalogue ==
    { <<"F", "e", "a", "t", "u", "r", "e", ":", " ", "F">>,
      <<"S", "c", "e", "n", "a", "r", "i", "o", ":", " ", "S">>,
      <<"S", "c", "e", "n", "a", "r", "i", "o", " ", "O", "u", "t", "l", "i", "n", "e", ":", " ", "O">> }

\* Any file of at most MaxRunLines lines of the run catalogue.
OfferedRun ==
    IF Len(doc) < MaxRunLines THEN RunCatalogue \cup {EndOfInput} ELSE {EndOfInput}

\* fs::read_to_string(&path).context(..)?: a file that cannot be read as
\* UTF-8 text makes main_inner return the error.
ReadToStringFails ==
    /\ pc = "feature_tags"
    /\ doc = <<>>
    /\ pc' = "aborted"
    /\ UNCHANGED <<doc, st, result, arg, output>>

\* The next turn of `for path in entry`, after the match on the feature of
\* the file before.
NextPath ==
    /\ pc \in {"exported", "logged"}
    /\ output.name < arg.paths
    /\ pc' = "feature_tags"
    /\ st' = InitLocals
    /\ doc' = <<>>
    /\ result' = NoResult
    /\ output' = [output EXCEPT !.name = @ + 1]
    /\ UNCHANGED arg

\* The loop is through the paths: the counts are printed and main_inner
\* returns Ok(()).
PrintCounts ==
    /\ pc \in {"exported", "logged"}
    /\ output.name = arg.paths
    /\ pc' = "returned"
    /\ UNCHANGED <<doc, st, result, arg, output>>

\* The process has ended: main_inner returned, or a panic unwound it.
RunOver == pc \in {"returned", "aborted", "panicked"}

InitRun ==
    /\ pc = "feature_tags"
    /\ st = InitLocals
    /\ doc = <<>>
    /\ result = NoResult
    /\ arg \in {[paths |-> n] : n \in 1..MaxPaths}
    /\ output = Driver(0, 0)

NextRun ==
    \/ FeatureFromStr(OfferedRun)
    \/ FeatureFromLines(OfferedRun)
    \/ ScenarioFromLines(OfferedRun)
    \/ OutlineSteps(OfferedRun)
    \/ Export
    \/ WriteLog
    \/ ReadToStringFails
    \/ NextPath
    \/ PrintCounts

SpecRun == InitRun /\ [][NextRun]_vars

\* The files of the batches of SpecOrder, by their lines: one that fails to
\* parse, one that parses, and one that parses to an outline without example
\* block.
OrderDocuments ==
    { << <<"S", "c", "e", "n", "a", "r", "i", "o", ":", " ", "S">> >>,
      << <<"F", "e", "a", "t", "u", "r", "e", ":", " ", "F">>,
         <<"S", "c", "e", "n", "a", "r", "i", "o", ":", " ", "S">> >>,
      << <<"F", "e", "a", "t", "u", "r", "e", ":", " ", "F">>,
         <<"S", "c", "e", "n", "a", "r", "i", "o", " ", "O", "u", "t", "l", "i", "n", "e", ":", " ", "O">>,
         <<"S", "c", "e", "n", "a", "r", "i", "o", ":", " ", "S">> >> }

\* The batches: the files the pattern matches, each file once, in the order
\* the loop takes them.
Batches ==
    {files \in BoundedSeq(OrderDocuments, Cardinality(OrderDocuments)) :
        /\ files # <<>>
        /\ \A i, j \in 1..Len(files) : files[i] = files[j] => i = j}

\* The content of the file at hand, line by line, then its end.
OfferedOrder ==
    LET content == arg.files[output.name] IN
    IF Len(doc) < Len(content) THEN {content[Len(doc) + 1]} ELSE {EndOfInput}

InitOrder ==
    /\ pc = "feature_tags"
    /\ st = InitLocals
    /\ doc = <<>>
    /\ result = NoResult
    /\ arg \in {[paths |-> Len(files), files |-> files] : files \in Batches}
    /\ output = Driver(0, 0)

NextOrder ==
    \/ FeatureFromStr(OfferedOrder)
    \/ FeatureFromLines(OfferedOrder)
    \/ ScenarioFromLines(OfferedOrder)
    \/ OutlineSteps(OfferedOrder)
    \/ Export
    \/ WriteLog
    \/ NextPath
    \/ PrintCounts

SpecOrder == InitOrder /\ [][NextOrder]_vars

(***************************************************************************)
(* The concrete inputs: the Farm feature of the specification and the two  *)
(* inputs of tests.rs, line by line as str::lines yields them.             *)
(***************************************************************************)
\* The Farm activities feature with one outline and one example block.
FarmInput ==
    \* `Feature: Farm activities`
    << <<"F", "e", "a", "t", "u", "r", "e", ":", " ", "F", "a", "r", "m", " ", "a", "c", "t", "i", "v", "i", "t", "i", "e", "s">>,
    \* `Scenario Outline: Shave an animal`
       <<"S", "c", "e", "n", "a", "r", "i", "o", " ", "O", "u", "t", "l", "i", "n", "e", ":", " ", "S", "h", "a", "v", "e", " ", "a", "n", " ", "a", "n", "i", "m", "a", "l">>,
    \* `  Given I am Old McDonald`
       <<" ", " ", "G", "i", "v", "e", "n", " ", "I", " ", "a", "m", " ", "O", "l", "d", " ", "M", "c", "D", "o", "n", "a", "l", "d">>,
    \* `  And On that farm there is a <animal>`
       <<" ", " ", "A", "n", "d", " ", "O", "n", " ", "t", "h", "a", "t", " ", "f", "a", "r", "m", " ", "t", "h", "e", "r", "e", " ", "i", "s", " ", "a", " ", "<", "a", "n", "i", "m", "a", "l", ">">>,
    \* `  Then I hear a <noise>`
       <<" ", " ", "T", "h", "e", "n", " ", "I", " ", "h", "e", "a", "r", " ", "a", " ", "<", "n", "o", "i", "s", "e", ">">>,
    \* `Examples:`
       <<"E", "x", "a", "m", "p", "l", "e", "s", ":">>,
    \* `  | animal | noise |`
       <<" ", " ", "|", " ", "a", "n", "i", "m", "a", "l", " ", "|", " ", "n", "o", "i", "s", "e", " ", "|">>,
    \* `  | cow    | moo   |`
       <<" ", " ", "|", " ", "c", "o", "w", " ", " ", " ", " ", "|", " ", "m", "o", "o", " ", " ", " ", "|">>,
    \* `  | horse  | neigh |`
       <<" ", " ", "|", " ", "h", "o", "r", "s", "e", " ", " ", "|", " ", "n", "e", "i", "g", "h", " ", "|">> >>

\* tests.rs, test_load_feature: input
TestLoadFeatureInput ==
    \* (empty)
    << <<>>,
    \* `    Feature: Farm activities`
       <<" ", " ", " ", " ", "F", "e", "a", "t", "u", "r", "e", ":", " ", "F", "a", "r", "m", " ", "a", "c", "t", "i", "v", "i", "t", "i", "e", "s">>,
    \* `    `
       <<" ", " ", " ", " ">>,
    \* `    `
       <<" ", " ", " ", " ">>,
    \* `    Scenario: Shave a yak`
       <<" ", " ", " ", " ", "S", "c", "e", "n", "a", "r", "i", "o", ":", " ", "S", "h", "a", "v", "e", " ", "a", " ", "y", "a", "k">>,
    \* `        Given I have a yak`
       <<" ", " ", " ", " ", " ", " ", " ", " ", "G", "i", "v", "e", "n", " ", "I", " ", "h", "a", "v", "e", " ", "a", " ", "y", "a", "k">>,
    \* `        And My yak has hair`
       <<" ", " ", " ", " ", " ", " ", " ", " ", "A", "n", "d", " ", "M", "y", " ", "y", "a", "k", " ", "h", "a", "s", " ", "h", "a", "i", "r">>,
    \* `        And I have a razor`
       <<" ", " ", " ", " ", " ", " ", " ", " ", "A", "n", "d", " ", "I", " ", "h", "a", "v", "e", " ", "a", " ", "r", "a", "z", "o", "r">>,
    \* `        When I shave the yak`
       <<" ", " ", " ", " ", " ", " ", " ", " ", "W", "h", "e", "n", " ", "I", " ", "s", "h", "a", "v", "e", " ", "t", "h", "e", " ", "y", "a", "k">>,
    \* `        Then My yak does not have <hair>`
       <<" ", " ", " ", " ", " ", " ", " ", " ", "T", "h", "e", "n", " ", "M", "y", " ", "y", "a", "k", " ", "d", "o", "e", "s", " ", "n", "o", "t", " ", "h", "a", "v", "e", " ", "<", "h", "a", "i", "r", ">">>,
    \* `        And I have yak hair`
       <<" ", " ", " ", " ", " ", " ", " ", " ", "A", "n", "d", " ", "I", " ", "h", "a", "v", "e", " ", "y", "a", "k", " ", "h", "a", "i", "r">>,
    \* `    `
       <<" ", " ", " ", " ">>,
    \* `    `
       <<" ", " ", " ", " ">>,
    \* `    `
       <<" ", " ", " ", " ">>,
    \* `    Scenario Outline: Shave an animal`
       <<" ", " ", " ", " ", "S", "c", "e", "n", "a", "r", "i", "o", " ", "O", "u", "t", "l", "i", "n", "e", ":", " ", "S", "h", "a", "v", "e", " ", "a", "n", " ", "a", "n", "i", "m", "a", "l">>,
    \* `        Given I am Old McDonald`
       <<" ", " ", " ", " ", " ", " ", " ", " ", "G", "i", "v", "e", "n", " ", "I", " ", "a", "m", " ", "O", "l", "d", " ", "M", "c", "D", "o", "n", "a", "l", "d">>,
    \* `        And I have a farm`
       <<" ", " ", " ", " ", " ", " ", " ", " ", "A", "n", "d", " ", "I", " ", "h", "a", "v", "e", " ", "a", " ", "f", "a", "r", "m">>,
    \* `        And On that farm there is a <animal>`
       <<" ", " ", " ", " ", " ", " ", " ", " ", "A", "n", "d", " ", "O", "n", " ", "t", "h", "a", "t", " ", "f", "a", "r", "m", " ", "t", "h", "e", "r", "e", " ", "i", "s", " ", "a", " ", "<", "a", "n", "i", "m", "a", "l", ">">>,
    \* `        When I listen`
       <<" ", " ", " ", " ", " ", " ", " ", " ", "W", "h", "e", "n", " ", "I", " ", "l", "i", "s", "t", "e", "n">>,
    \* `        Then I hear a <noise> here`
       <<" ", " ", " ", " ", " ", " ", " ", " ", "T", "h", "e", "n", " ", "I", " ", "h", "e", "a", "r", " ", "a", " ", "<", "n", "o", "i", "s", "e", ">", " ", "h", "e", "r", "e">>,
    \* `        And I hear a <noise> there`
       <<" ", " ", " ", " ", " ", " ", " ", " ", "A", "n", "d", " ", "I", " ", "h", "e", "a", "r", " ", "a", " ", "<", "n", "o", "i", "s", "e", ">", " ", "t", "h", "e", "r", "e">>,
    \* `    Examples:`
       <<" ", " ", " ", " ", "E", "x", "a", "m", "p", "l", "e", "s", ":">>,
    \* `        | animal | noise |`
       <<" ", " ", " ", " ", " ", " ", " ", " ", "|", " ", "a", "n", "i", "m", "a", "l", " ", "|", " ", "n", "o", "i", "s", "e", " ", "|">>,
    \* `        | cow    | moo   |`
       <<" ", " ", " ", " ", " ", " ", " ", " ", "|", " ", "c", "o", "w", " ", " ", " ", " ", "|", " ", "m", "o", "o", " ", " ", " ", "|">>,
    \* `        | horse  | neigh |`
       <<" ", " ", " ", " ", " ", " ", " ", " ", "|", " ", "h", "o", "r", "s", "e", " ", " ", "|", " ", "n", "e", "i", "g", "h", " ", "|">>,
    \* `        | pig    | oink  |`
       <<" ", " ", " ", " ", " ", " ", " ", " ", "|", " ", "p", "i", "g", " ", " ", " ", " ", "|", " ", "o", "i", "n", "k", " ", " ", "|">>,
    \* `    `
       <<" ", " ", " ", " ">> >>

\* tests.rs, test_load_outline_with_multiple_example_blocks: input
TestLoadOutlineWithMultipleExampleBlocksInput ==
    \* (empty)
    << <<>>,
    \* `    Feature: Farm activities`
       <<" ", " ", " ", " ", "F", "e", "a", "t", "u", "r", "e", ":", " ", "F", "a", "r", "m", " ", "a", "c", "t", "i", "v", "i", "t", "i", "e", "s">>,
    \* `    `
       <<" ", " ", " ", " ">>,
    \* `    `
       <<" ", " ", " ", " ">>,
    \* `    Scenario: Shave a yak`
       <<" ", " ", " ", " ", "S", "c", "e", "n", "a", "r", "i", "o", ":", " ", "S", "h", "a", "v", "e", " ", "a", " ", "y", "a", "k">>,
    \* `        Given I have a yak`
       <<" ", " ", " ", " ", " ", " ", " ", " ", "G", "i", "v", "e", "n", " ", "I", " ", "h", "a", "v", "e", " ", "a", " ", "y", "a", "k">>,
    \* `        And My yak has hair`
       <<" ", " ", " ", " ", " ", " ", " ", " ", "A", "n", "d", " ", "M", "y", " ", "y", "a", "k", " ", "h", "a", "s", " ", "h", "a", "i", "r">>,
    \* `        And I have a razor`
       <<" ", " ", " ", " ", " ", " ", " ", " ", "A", "n", "d", " ", "I", " ", "h", "a", "v", "e", " ", "a", " ", "r", "a", "z", "o", "r">>,
    \* `        When I shave the yak`
       <<" ", " ", " ", " ", " ", " ", " ", " ", "W", "h", "e", "n", " ", "I", " ", "s", "h", "a", "v", "e", " ", "t", "h", "e", " ", "y", "a", "k">>,
    \* `        Then My yak does not have <hair>`
       <<" ", " ", " ", " ", " ", " ", " ", " ", "T", "h", "e", "n", " ", "M", "y", " ", "y", "a", "k", " ", "d", "o", "e", "s", " ", "n", "o", "t", " ", "h", "a", "v", "e", " ", "<", "h", "a", "i", "r", ">">>,
    \* `        And I have yak hair`
       <<" ", " ", " ", " ", " ", " ", " ", " ", "A", "n", "d", " ", "I", " ", "h", "a", "v", "e", " ", "y", "a", "k", " ", "h", "a", "i", "r">>,
    \* `    `
       <<" ", " ", " ", " ">>,
    \* `    `
       <<" ", " ", " ", " ">>,
    \* `    `
       <<" ", " ", " ", " ">>,
    \* `    Scenario Outline: Shave an animal`
       <<" ", " ", " ", " ", "S", "c", "e", "n", "a", "r", "i", "o", " ", "O", "u", "t", "l", "i", "n", "e", ":", " ", "S", "h", "a", "v", "e", " ", "a", "n", " ", "a", "n", "i", "m", "a", "l">>,
    \* `        Given I am Old McDonald`
       <<" ", " ", " ", " ", " ", " ", " ", " ", "G", "i", "v", "e", "n", " ", "I", " ", "a", "m", " ", "O", "l", "d", " ", "M", "c", "D", "o", "n", "a", "l", "d">>,
    \* `        And I have a farm`
       <<" ", " ", " ", " ", " ", " ", " ", " ", "A", "n", "d", " ", "I", " ", "h", "a", "v", "e", " ", "a", " ", "f", "a", "r", "m">>,
    \* `        And On that farm there is a <animal>`
       <<" ", " ", " ", " ", " ", " ", " ", " ", "A", "n", "d", " ", "O", "n", " ", "t", "h", "a", "t", " ", "f", "a", "r", "m", " ", "t", "h", "e", "r", "e", " ", "i", "s", " ", "a", " ", "<", "a", "n", "i", "m", "a", "l", ">">>,
    \* `        When I listen`
       <<" ", " ", " ", " ", " ", " ", " ", " ", "W", "h", "e", "n", " ", "I", " ", "l", "i", "s", "t", "e", "n">>,
    \* `        Then I hear a <noise> here`
       <<" ", " ", " ", " ", " ", " ", " ", " ", "T", "h", "e", "n", " ", "I", " ", "h", "e", "a", "r", " ", "a", " ", "<", "n", "o", "i", "s", "e", ">", " ", "h", "e", "r", "e">>,
    \* `        And I hear a <noise> there`
       <<" ", " ", " ", " ", " ", " ", " ", " ", "A", "n", "d", " ", "I", " ", "h", "e", "a", "r", " ", "a", " ", "<", "n", "o", "i", "s", "e", ">", " ", "t", "h", "e", "r", "e">>,
    \* `    `
       <<" ", " ", " ", " ">>,
    \* `    @Mammal`
       <<" ", " ", " ", " ", "@", "M", "a", "m", "m", "a", "l">>,
    \* `    Examples:`
       <<" ", " ", " ", " ", "E", "x", "a", "m", "p", "l", "e", "s", ":">>,
    \* `        | animal  | noise |`
       <<" ", " ", " ", " ", " ", " ", " ", " ", "|", " ", "a", "n", "i", "m", "a", "l", " ", " ", "|", " ", "n", "o", "i", "s", "e", " ", "|">>,
    \* `        | cow     | moo   |`
       <<" ", " ", " ", " ", " ", " ", " ", " ", "|", " ", "c", "o", "w", " ", " ", " ", " ", " ", "|", " ", "m", "o", "o", " ", " ", " ", "|">>,
    \* `        | horse   | neigh |`
       <<" ", " ", " ", " ", " ", " ", " ", " ", "|", " ", "h", "o", "r", "s", "e", " ", " ", " ", "|", " ", "n", "e", "i", "g", "h", " ", "|">>,
    \* `        | pig     | oink  |`
       <<" ", " ", " ", " ", " ", " ", " ", " ", "|", " ", "p", "i", "g", " ", " ", " ", " ", " ", "|", " ", "o", "i", "n", "k", " ", " ", "|">>,
    \* `    `
       <<" ", " ", " ", " ">>,
    \* `    @Bird`
       <<" ", " ", " ", " ", "@", "B", "i", "r", "d">>,
    \* `    Examples:`
       <<" ", " ", " ", " ", "E", "x", "a", "m", "p", "l", "e", "s", ":">>,
    \* `        | duck    | quack |`
       <<" ", " ", " ", " ", " ", " ", " ", " ", "|", " ", "d", "u", "c", "k", " ", " ", " ", " ", "|", " ", "q", "u", "a", "c", "k", " ", "|">>,
    \* `        | chicken | cluck |`
       <<" ", " ", " ", " ", " ", " ", " ", " ", "|", " ", "c", "h", "i", "c", "k", "e", "n", " ", "|", " ", "c", "l", "u", "c", "k", " ", "|">>,
    \* `    `
       <<" ", " ", " ", " ">> >>

Documents ==
    {FarmInput, TestLoadFeatureInput, TestLoadOutlineWithMultipleExampleBlocksInput}

\* The input is one of the documents, or one cut short after any line: the
\* next read finds the document's next line, or the end of the input.
OfferedFarm ==
    {d[Len(doc) + 1] : d \in {d \in Documents :
        Len(d) > Len(doc) /\ SubSeq(d, 1, Len(doc)) = doc}} \cup {EndOfInput}

NextFarm ==
    \/ FeatureFromStr(OfferedFarm)
    \/ FeatureFromLines(OfferedFarm)
    \/ ScenarioFromLines(OfferedFarm)
    \/ OutlineSteps(OfferedFarm)
    \/ OutlineTags(OfferedFarm)
    \/ ExampleBlockLabels(OfferedFarm)
    \/ ExampleBlockRows(OfferedFarm)
    \/ Export

SpecFarm == InitParse /\ [][NextFarm]_vars

(***************************************************************************)
(* Direct calls of the decoders: the argument is drawn when the call is    *)
(* made, the call returns in one step.                                     *)
(***************************************************************************)
StepChars == {"a", "<", ">", " "}
RowChars == {"a", "b", "|", "\\", " "}

NoLocals == [fn |-> "none"]

InitStep ==
    /\ pc = "call"
    /\ st = [fn |-> "Step::new"]
    /\ arg \in BoundedSeq(StepChars, MaxStepLen)
    /\ doc = <<>>
    /\ result = NoResult
    /\ output = NoResult

CallStepNew ==
    /\ pc = "call"
    /\ st.fn = "Step::new"
    /\ \E keyword \in StepKeywords : result' = StepNew(keyword, arg)
    /\ pc' = "done"
    /\ UNCHANGED <<doc, st, arg, output>>

NextStep == CallStepNew

SpecStep == InitStep /\ [][NextStep]_vars

InitRow ==
    /\ pc = "call"
    /\ st = [fn |-> "ExampleRow::from_str"]
    /\ arg \in BoundedSeq(RowChars, MaxRowLen)
    /\ doc = <<>>
    /\ result = NoResult
    /\ output = NoResult

CallExampleRowFromStr ==
    /\ pc = "call"
    /\ st.fn = "ExampleRow::from_str"
    /\ result' = ExampleRowFromStr(arg)
    /\ pc' = "done"
    /\ UNCHANGED <<doc, st, arg, output>>

NextRow == CallExampleRowFromStr

SpecRow == InitRow /\ [][NextRow]_vars

(***************************************************************************)
(* Direct calls of calculate_arg_types, as ScenarioOutline::export makes    *)
(* them: on the example blocks of a parsed outline, each with rows as wide  *)
(* as its own labels. Between two exports the rows of the outline may be    *)
(* reordered.                                                              *)
(***************************************************************************)
CellTexts == {<<"1">>, <<"1", ".", "5">>, <<"t", "r", "u", "e">>, <<"c", "o", "w">>}


LabelsOf(cols) == [entries |-> [i \in 1..cols |-> <<"c", Digits[i + 1]>>]]

RowsOf(cols) == {[entries |-> e] : e \in [1..cols -> CellTexts]}

\* The blocks with at most `cells` example cells.
BlocksWithin(cells) ==
    UNION {
        {[labels |-> LabelsOf(cols), examples |-> rows, tags |-> <<>>] :
            rows \in BoundedSeq(RowsOf(cols), Min(MaxRows, cells \div cols))} :
        cols \in 1..MaxCols}

CellsOf(block) == Len(block.examples) * Len(block.labels.entries)

\* The sequences of at most n blocks with at most `cells` example cells.
RECURSIVE OutlinesWithin(_, _)
OutlinesWithin(n, cells) ==
    {<<>>} \cup
    (IF n = 0 THEN {}
     ELSE UNION {
        {<<b>> \o rest : rest \in OutlinesWithin(n - 1, cells - CellsOf(b))} :
        b \in BlocksWithin(cells)})

InitTypes ==
    /\ pc = "call"
    /\ st = [fn |-> "calculate_arg_types", swapped |-> FALSE, moved |-> FALSE]
    /\ arg \in OutlinesWithin(MaxBlocks, MaxCells)
    /\ doc = <<>>
    /\ result = NoResult
    /\ output = NoResult

CallCalculateArgTypes ==
    /\ pc = "call"
    /\ st.fn = "calculate_arg_types"
    /\ result' = Ok(CalculateArgTypes(arg))
    /\ pc' = "done"
    /\ UNCHANGED <<doc, st, arg, output>>

RemoveAt(s, i) == SubSeq(s, 1, i - 1) \o SubSeq(s, i + 1, Len(s))

\* Two neighbouring rows of one block change places, and the types are
\* calculated again.
SwapRows ==
    /\ pc = "done"
    /\ st.fn = "calculate_arg_types"
    /\ \E b \in 1..Len(arg) : \E i \in 1..(Len(arg[b].examples) - 1) :
          LET rows == arg[b].examples IN
          arg' = [arg EXCEPT ![b].examples =
                     [rows EXCEPT ![i] = rows[i + 1], ![i + 1] = rows[i]]]
    /\ result' = Ok(CalculateArgTypes(arg'))
    /\ st' = [st EXCEPT !.swapped = TRUE]
    /\ UNCHANGED <<pc, doc, output>>

\* A row moves to the end of another block with as many labels, and the
\* types are calculated again.
MoveRow ==
    /\ pc = "done"
    /\ st.fn = "calculate_arg_types"
    /\ \E b, c \in 1..Len(arg) : \E i \in 1..Len(arg[b].examples) :
          /\ b # c
          /\ Len(arg[b].labels.entries) = Len(arg[c].labels.entries)
          /\ arg' = [arg EXCEPT
                        ![b].examples = RemoveAt(@, i),
                        ![c].examples = Append(@, arg[b].examples[i])]
    /\ result' = Ok(CalculateArgTypes(arg'))
    /\ st' = [st EXCEPT !.moved = TRUE]
    /\ UNCHANGED <<pc, doc, output>>

NextTypes == CallCalculateArgTypes \/ SwapRows \/ MoveRow

SpecTypes == InitTypes /\ [][NextTypes]_vars

(***************************************************************************)
(* Direct calls of the line classifier: the lines are made of the words    *)
(* and signs that the classifier tells apart.                              *)
(***************************************************************************)
LineWords ==
    { <<"F", "e", "a", "t", "u", "r", "e">>, <<"B", "a", "c", "k", "g", "r", "o", "u", "n", "d">>, <<"S", "c", "e", "n", "a", "r", "i", "o">>, <<"E", "x", "a", "m", "p", "l", "e">>, <<"S", "c", "e", "n", "a", "r", "i", "o", "s">>,
      <<"S", "c", "e", "n", "a", "r", "i", "o", " ", "T", "e", "m", "p", "l", "a", "t", "e">>, <<"G", "i", "v", "e", "n">>, <<"*">>,
      <<":">>, <<" ">>, <<"@">>, <<"|">>, <<"t">> }

InitLine ==
    /\ pc = "call"
    /\ st = [fn |-> "GherkinLine::from_str"]
    /\ arg \in BoundedSeq(LineWords, MaxLineWords)
    /\ doc = <<>>
    /\ result = NoResult
    /\ output = NoResult

CallGherkinLineFromStr ==
    /\ pc = "call"
    /\ st.fn = "GherkinLine::from_str"
    /\ result' = GherkinLineFromStr(Concat(arg))
    /\ pc' = "done"
    /\ UNCHANGED <<doc, st, arg, output>>

NextLine == CallGherkinLineFromStr

SpecLine == InitLine /\ [][NextLine]_vars

\* The tags: one line is classified and, when it is a tag line, its tags
\* are collected as the parse functions do with tags.extend(..).
TagChars == {"@", "a", "b", " "}

InitTags ==
    /\ pc = "call"
    /\ st = [fn |-> "GherkinTags::into_iter"]
    /\ arg \in BoundedSeq(TagChars, MaxTagLen)
    /\ doc = <<>>
    /\ result = NoResult
    /\ output = NoResult

CallIntoIter ==
    /\ pc = "call"
    /\ st.fn = "GherkinTags::into_iter"
    /\ LET line == GherkinLineFromStr(arg) IN
          result' = [line |-> line,
                     tags |-> IF line.kind = "Tags" THEN TagsOf(line) ELSE <<>>]
    /\ pc' = "done"
    /\ UNCHANGED <<doc, st, arg, output>>

NextTags == CallIntoIter

SpecTags == InitTags /\ [][NextTags]_vars

(***************************************************************************)
(* Claims about the example blocks of a parse (Spec).                      *)
(***************************************************************************)
ParseReturned == st.fn = "Feature::from_str" /\ (pc = "done" \/ FileHandled)

\* The example blocks of all the outlines of a feature.
BlocksOfFeature(feature) ==
    UNION {{feature.items[i].example_blocks[b] :
                b \in 1..Len(feature.items[i].example_blocks)} :
           i \in {j \in 1..Len(feature.items) : feature.items[j].kind = "Outline"}}

\* C1: in every example block of a feature that Feature::from_str returned,
\* each example row has exactly as many cells as the block's label row.
C1_RowsAsWideAsLabels ==
    (ParseReturned /\ IsOk(result)) =>
        \A block \in BlocksOfFeature(result.val) :
            \A r \in 1..Len(block.examples) :
                Len(block.examples[r].entries) = Len(block.labels.entries)

\* A feature was returned with a block of two label columns and two rows.
C1_Witness ==
    /\ ParseReturned
    /\ IsOk(result)
    /\ \E block \in BlocksOfFeature(result.val) :
          /\ Len(block.labels.entries) = 2
          /\ Len(block.examples) >= 2

\* C32: in a feature that was returned, every example row of every block of
\* an outline has as many cells as the label row of the first block of that
\* outline, and calculate_arg_types gives one type per label of that row.
C32_BlocksShareFirstArity ==
    (ParseReturned /\ IsOk(result)) =>
        \A k \in 1..Len(result.val.items) :
            LET item == result.val.items[k] IN
            (item.kind = "Outline" /\ item.example_blocks # <<>>) =>
                LET arity == Len(item.example_blocks[1].labels.entries) IN
                /\ Len(CalculateArgTypes(item.example_blocks)) = arity
                /\ \A b \in 1..Len(item.example_blocks) :
                      \A r \in 1..Len(item.example_blocks[b].examples) :
                          Len(item.example_blocks[b].examples[r].entries) = arity

\* The line a read has just taken from the input.
LineJustRead == doc'[Len(doc')]

\* A read in the rows of an example block takes a table row with a number
\* of cells other than the number of labels.
ReadsMismatchedRow ==
    /\ pc = "rows"
    /\ st.fn = "Feature::from_str"
    /\ doc' # doc
    /\ LineJustRead # EndOfInput
    /\ ~Filtered(LineJustRead)
    /\ LET line == GherkinLineFromStr(Trim(LineJustRead)) IN
          /\ line.kind = "ExampleEntry"
          /\ IsOk(ExampleRowFromStr(line.text))
          /\ Len(ExampleRowFromStr(line.text).val.entries) # Len(st.labels.entries)

\* The parse has failed on the row just read, with an error that carries
\* the two counts and the two rows.
FailsAtMismatchedRow ==
    LET row == ExampleRowFromStr(
                   GherkinLineFromStr(Trim(LineJustRead)).text).val.entries
        cause == result'.chain[1]
    IN  /\ pc' = "done"
        /\ IsErr(result')
        /\ DOMAIN cause = {"msg", "row_length", "labels_length", "labels", "examples"}
        /\ cause.row_length = Len(row)
        /\ cause.labels_length = Len(st.labels.entries)
        /\ cause.labels = st.labels.entries
        /\ cause.examples = row
        /\ st'.examples = st.examples

\* C2: when the rows of an example block come to a table row whose number of
\* cells differs from the number of labels, the parse fails at that row with
\* an error carrying both counts and both rows, and a parse that has failed
\* reads no further line.
C2_MismatchFailsAtOnce ==
    [][/\ ReadsMismatchedRow => FailsAtMismatchedRow
       /\ (ParseReturned /\ IsErr(result)) => doc' = doc]_vars

\* The parse failed on a mismatched row that followed a row that fitted.
C2_Witness ==
    /\ ParseReturned
    /\ IsErr(result)
    /\ "row_length" \in DOMAIN result.chain[1]
    /\ result.chain[1].row_length # result.chain[1].labels_length
    /\ Len(st.examples) >= 1
    /\ doc[Len(doc)] # EndOfInput

\* The line just read, as the classifier sees it.
ClassifiedJustRead == GherkinLineFromStr(Trim(LineJustRead))

\* A read takes a line that reaches the classifier.
ReadsALine ==
    /\ st.fn = "Feature::from_str"
    /\ doc' # doc
    /\ LineJustRead # EndOfInput
    /\ ~Filtered(LineJustRead)

\* Where an outline takes an Examples header as the start of a block: after
\* its steps, after a tag line, after the rows of the block before.
BlockMayBegin == pc \in {"outline_steps", "outline_tags", "rows"}

\* An outline reads an Examples header with a title.
ReadsTitledExamples ==
    /\ ReadsALine
    /\ BlockMayBegin
    /\ ClassifiedJustRead.kind = "BeginGroup"
    /\ ClassifiedJustRead.keyword = "Examples"
    /\ ClassifiedJustRead.title # <<>>

\* C11: an Examples header with a title that is not empty makes the whole
\* parse fail on that header, with the error that Examples blocks cannot
\* have a title, before a label row or a table row of the block is read.
C11_TitledExamplesFails ==
    [][ReadsTitledExamples =>
          /\ pc' = "done"
          /\ IsErr(result')
          /\ result'.chain[1] =
                 [msg |-> "`Examples:` or `Scenarios:` blocks can't have a title",
                  title |-> ClassifiedJustRead.title]
          /\ st'.labels = st.labels
          /\ st'.examples = st.examples]_vars

\* The parse failed on a titled Examples header that followed a first block.
C11_Witness ==
    /\ ParseReturned
    /\ IsErr(result)
    /\ "title" \in DOMAIN result.chain[1]
    /\ Len(st.example_blocks) = 1
    /\ doc[Len(doc)] = <<"E", "x", "a", "m", "p", "l", "e", "s", ":", " ", "x">>

\* The steps loop of an outline reads a line.
ReadsInOutlineSteps == ReadsALine /\ pc = "outline_steps"

\* The parse has failed on the line just read with the error of the steps
\* loop, which names the outline and shows the line.
FailsAsUnexpectedInOutlineSteps ==
    /\ pc' = "done"
    /\ IsErr(result')
    /\ result'.chain[1] =
           [msg |-> "Unexpected line while reading steps of scenario outline",
            line |-> ClassifiedJustRead,
            outline |-> st.group_name]
    /\ result'.chain[Len(result'.chain)].outline = st.group_name

\* C27: in the steps of an outline, a line of free text or a table row makes
\* the parse fail with an error that names the outline; a step, a tag line
\* and a group header do not raise that error.
C27_StrayLineInOutlineStepsFails ==
    [][ReadsInOutlineSteps =>
          (ClassifiedJustRead.kind \in {"FreeText", "ExampleEntry"}
              <=> FailsAsUnexpectedInOutlineSteps)]_vars

\* The parse failed on a table row that followed a step of an outline.
C27_Witness ==
    /\ ParseReturned
    /\ IsErr(result)
    /\ result.chain[1].msg = "Unexpected line while reading steps of scenario outline"
    /\ result.chain[1].line.kind = "ExampleEntry"
    /\ result.chain[1].outline = <<"O">>
    /\ Len(st.steps) = 1

\* The steps of an outline are followed by the header of the next Scenario
\* or Scenario Outline.
ReadsHeaderAfterOutlineSteps ==
    /\ ReadsALine
    /\ pc = "outline_steps"
    /\ st.steps # <<>>
    /\ ClassifiedJustRead.kind = "BeginGroup"
    /\ ClassifiedJustRead.keyword \in {"Scenario", "ScenarioOutline"}

\* The steps of an outline are followed by the end of the input.
ReadsEndAfterOutlineSteps ==
    /\ pc = "outline_steps"
    /\ st.fn = "Feature::from_str"
    /\ st.steps # <<>>
    /\ doc' # doc
    /\ LineJustRead = EndOfInput

\* The parse goes on, or has returned a feature, with the outline whose
\* steps were being read as the last item so far, without example blocks.
OutlineKeptWithoutBlocks ==
    LET items == IF pc' = "done" THEN result'.val.items ELSE st'.items IN
    /\ ~(pc' = "done" /\ IsErr(result'))
    /\ Len(items) = Len(st.items) + 1
    /\ items[Len(items)] = [kind |-> "Outline",
                            name |-> st.group_name,
                            steps |-> st.steps,
                            example_blocks |-> <<>>,
                            tags |-> st.tags]

\* C25: an outline without example block parses: where its steps are
\* followed by the header of another group, and where they are followed by
\* the end of the input, the parse does not fail and the outline is kept
\* with an empty sequence of example blocks.
C25_OutlineWithoutExamplesParses ==
    [][(ReadsHeaderAfterOutlineSteps \/ ReadsEndAfterOutlineSteps)
          => OutlineKeptWithoutBlocks]_vars

(***************************************************************************)
(* Claims about the groups of a feature and their tags (SpecGroups).       *)
(***************************************************************************)
\* The lines of the input read so far that reach the classifier, classified.
RECURSIVE ClassifiedFrom(_)
ClassifiedFrom(lines) ==
    IF lines = <<>> THEN <<>>
    ELSE IF Head(lines) = EndOfInput \/ Filtered(Head(lines))
    THEN ClassifiedFrom(Tail(lines))
    ELSE <<GherkinLineFromStr(Trim(Head(lines)))>> \o ClassifiedFrom(Tail(lines))

Classified == ClassifiedFrom(doc)

\* The places of the headers with one of the keywords among the classified
\* lines.
HeadersAt(lines, keywords) ==
    {i \in 1..Len(lines) :
        lines[i].kind = "BeginGroup" /\ lines[i].keyword \in keywords}

\* A read ends a Background section while a Background is recorded: it
\* takes the end of the input, or a line that is no step.
EndsSecondBackground ==
    /\ pc = "scenario"
    /\ st.fn = "Feature::from_str"
    /\ st.group_kw = "Background"
    /\ st.background # <<>>
    /\ doc' # doc
    /\ \/ LineJustRead = EndOfInput
       \/ ~Filtered(LineJustRead) /\ ClassifiedJustRead.kind # "StepLine"

RECURSIVE HeaderPlaces(_, _, _)
HeaderPlaces(lines, keywords, i) ==
    IF i > Len(lines) THEN <<>>
    ELSE IF i \in HeadersAt(lines, keywords)
    THEN <<i>> \o HeaderPlaces(lines, keywords, i + 1)
    ELSE HeaderPlaces(lines, keywords, i + 1)

\* The tags of the run of tag lines that ends right before place i, in
\* declaration order.
RECURSIVE TagRunBefore(_, _)
TagRunBefore(lines, i) ==
    IF i > 1 /\ lines[i - 1].kind = "Tags"
    THEN TagRunBefore(lines, i - 1) \o TagsOf(lines[i - 1])
    ELSE <<>>

\* The example blocks of all the outlines of a feature, in order.
RECURSIVE BlocksInOrder(_)
BlocksInOrder(items) ==
    IF items = <<>> THEN <<>>
    ELSE (IF Head(items).kind = "Outline" THEN Head(items).example_blocks ELSE <<>>)
         \o BlocksInOrder(Tail(items))

\* The tags of the tag lines from place i up to the next header.
RECURSIVE TagsUpToHeader(_, _)
TagsUpToHeader(lines, i) ==
    IF i > Len(lines) \/ lines[i].kind = "BeginGroup" THEN <<>>
    ELSE (IF lines[i].kind = "Tags" THEN TagsOf(lines[i]) ELSE <<>>)
         \o TagsUpToHeader(lines, i + 1)

\* The tags of the tag lines of the description: after the Feature header,
\* before the first group.
DescriptionTags(lines) ==
    TagsUpToHeader(lines, HeaderPlaces(lines, {"Feature"}, 1)[1] + 1)

\* The outlines of a feature, in order.
OutlinesInOrder(items) == SelectSeq(items, LAMBDA item : item.kind = "Outline")

\* C13: in a feature that was returned, the blocks are the Examples headers
\* of the input in order, and the tags of each block are the tags of the run
\* of tag lines right before its header, in declaration order: none of a
\* sibling block. The tags of an outline are tags of the tag lines before the
\* first group of the feature only: none of the tag lines inside an outline.
C13_BlockTagsAreTheTagsBeforeItsHeader ==
    (ParseReturned /\ IsOk(result)) =>
        LET blocks == BlocksInOrder(result.val.items)
            headers == HeaderPlaces(Classified, {"Examples"}, 1)
            outlines == OutlinesInOrder(result.val.items)
        IN  /\ Len(blocks) = Len(headers)
            /\ \A k \in 1..Len(blocks) :
                  blocks[k].tags = TagRunBefore(Classified, headers[k])
            /\ \A k \in 1..Len(outlines) :
                  outlines[k].tags =
                      IF k = 1 THEN DescriptionTags(Classified) ELSE <<>>

\* A feature was returned with an outline of two blocks, the first after
\* the tag line `@u @v` and the second after the tag line `@t`.
C13_Witness ==
    /\ ParseReturned
    /\ IsOk(result)
    /\ Len(result.val.items) = 1
    /\ result.val.items[1].kind = "Outline"
    /\ Len(result.val.items[1].example_blocks) = 2
    /\ result.val.items[1].example_blocks[1].tags = << <<"u">>, <<"v">> >>
    /\ result.val.items[1].example_blocks[2].tags = << <<"t">> >>
    /\ result.val.items[1].tags = <<>>

\* The places of the Scenario and Scenario Outline headers of the input, in
\* order.
ItemHeaders == HeaderPlaces(Classified, {"Scenario", "ScenarioOutline"}, 1)

\* C14: in a feature that was returned, the tags of each Scenario and
\* Scenario Outline, and of the Background, are the tags of the run of tag
\* lines right before its header, in declaration order.
C14_GroupTagsAreTheTagsBeforeItsHeader ==
    (ParseReturned /\ IsOk(result)) =>
        /\ \A k \in 1..Min(Len(result.val.items), Len(ItemHeaders)) :
              result.val.items[k].tags = TagRunBefore(Classified, ItemHeaders[k])
        /\ \A k \in 1..Len(result.val.background) :
              result.val.background[k].tags =
                  TagRunBefore(Classified,
                               HeaderPlaces(Classified, {"Background"}, 1)[1])

\* C15: the items of a feature that was returned are the Scenario and
\* Scenario Outline headers of the input, one item per header and in order,
\* each of the kind and with the title of its header.
C15_OneItemPerHeader ==
    (ParseReturned /\ IsOk(result)) =>
        /\ Len(result.val.items) = Len(ItemHeaders)
        /\ \A k \in 1..Len(ItemHeaders) :
              /\ result.val.items[k].name = Classified[ItemHeaders[k]].title
              /\ result.val.items[k].kind =
                     IF Classified[ItemHeaders[k]].keyword = "Scenario"
                     THEN "Bare" ELSE "Outline"

\* A Scenario or a Background has returned a tag line as its terminator and
\* the feature waits for the line after it.
AfterTagTerminator ==
    /\ pc = "scenario"
    /\ st.fn = "Feature::from_str"
    /\ Classified # <<>>
    /\ Classified[Len(Classified)].kind = "Tags"

\* C16: at feature level, a tag line that ended a Scenario or a Background
\* and is followed by a step, a table row or free text makes the parse fail
\* on that line.
C16_TagLineThenNoHeaderFails ==
    [][(AfterTagTerminator /\ ReadsALine
            /\ ClassifiedJustRead.kind \in {"StepLine", "ExampleEntry", "FreeText"})
          => (pc' = "done" /\ IsErr(result'))]_vars

\* The last line read inside an outline is a tag line, and the read finds the
\* end of the input.
ReadsEndAfterOutlineTags ==
    /\ st.fn = "Feature::from_str"
    /\ st.group_kw = "ScenarioOutline"
    /\ Classified # <<>>
    /\ Classified[Len(Classified)].kind = "Tags"
    /\ doc' # doc
    /\ LineJustRead = EndOfInput

\* C28: inside an outline, a run of tag lines followed by the end of the
\* input makes the parse fail, with the error of the end of input after a
\* tag, be the tag lines after the steps or after an example block.
C28_TrailingTagsInOutlineFail ==
    [][ReadsEndAfterOutlineTags =>
          /\ pc' = "done"
          /\ IsErr(result')
          /\ result'.chain[1].msg = "Unexpected EOF after reading tag"]_vars

\* The parse failed at the end of the input after two tag lines that
\* followed a first example block.
C28_Witness ==
    /\ ParseReturned
    /\ IsErr(result)
    /\ result.chain[1].msg = "Unexpected EOF after reading tag"
    /\ Len(st.example_blocks) = 1
    /\ Len(st.outline_tags) = 3

\* The Feature header has been read, no group header yet, and the parse has
\* not returned.
InDescription ==
    /\ st.fn = "Feature::from_str"
    /\ ~ParseReturned
    /\ HeadersAt(Classified, {"Feature"}) # {}
    /\ Cardinality({i \in 1..Len(Classified) : Classified[i].kind = "BeginGroup"}) = 1

\* The texts of the lines of free text from place i up to the next header.
RECURSIVE FreeTextUpToHeader(_, _)
FreeTextUpToHeader(lines, i) ==
    IF i > Len(lines) \/ lines[i].kind = "BeginGroup" THEN <<>>
    ELSE (IF lines[i].kind = "FreeText" THEN <<lines[i].text>> ELSE <<>>)
         \o FreeTextUpToHeader(lines, i + 1)

\* C29: after the Feature header and before the first group header, a line
\* of free text is added at the end of the description, a step and a table
\* row make the parse fail, and so does the end of the input; the
\* description of a feature that was returned is the free text between the
\* Feature header and the first group header, in input order.
C29_DescriptionBeforeFirstGroup ==
    /\ [][(InDescription /\ ReadsALine) =>
             /\ ClassifiedJustRead.kind = "FreeText" =>
                    /\ st'.free_text = Append(st.free_text, ClassifiedJustRead.text)
                    /\ ~ParseReturned'
             /\ ClassifiedJustRead.kind \in {"StepLine", "ExampleEntry"} =>
                    (pc' = "done" /\ IsErr(result'))]_vars
    /\ [][(InDescription /\ doc' # doc /\ LineJustRead = EndOfInput) =>
             (pc' = "done" /\ IsErr(result'))]_vars
    /\ []((ParseReturned /\ IsOk(result)) =>
             result.val.free_text =
                 FreeTextUpToHeader(Classified,
                                    HeaderPlaces(Classified, {"Feature"}, 1)[1] + 1))

\* A feature was returned with the description `more`, `text`.
C29_Witness ==
    /\ ParseReturned
    /\ IsOk(result)
    /\ result.val.free_text = << <<"m", "o", "r", "e">>, <<"t", "e", "x", "t">> >>

\* C26: an input with exactly one Background header never fails with the
\* error of a second Background, whatever follows the steps of the
\* Background: a tag line before the next Scenario in particular.
C26_OneBackgroundIsNoDuplicate ==
    (ParseReturned /\ IsErr(result)
        /\ Cardinality(HeadersAt(Classified, {"Background"})) = 1)
    => result.chain[1].msg # "another background was already declared for that feature"

\* The steps decoded from the maximal run of step lines from place i on.
RECURSIVE StepRunFrom(_, _)
StepRunFrom(lines, i) ==
    IF i > Len(lines) \/ lines[i].kind # "StepLine" THEN <<>>
    ELSE <<StepNew(lines[i].keyword, lines[i].text).val>> \o StepRunFrom(lines, i + 1)

\* The scenarios of a feature, in order.
ScenariosInOrder(items) == SelectSeq(items, LAMBDA item : item.kind = "Bare")

\* C24: in a feature that was returned, the scenarios are the Scenario
\* headers of the input, one for one and in order, and the steps of each, as
\* those of the Background, are the decoded steps of the maximal run of step
\* lines that follows its header, in input order: the line that ends a run
\* is dispatched once, and no header twice.
C24_ScenarioTakesItsStepRun ==
    (ParseReturned /\ IsOk(result)) =>
        LET scenarios == ScenariosInOrder(result.val.items)
            headers == HeaderPlaces(Classified, {"Scenario"}, 1)
            backgrounds == HeaderPlaces(Classified, {"Background"}, 1)
        IN  /\ Len(scenarios) = Len(headers)
            /\ \A k \in 1..Len(headers) :
                  /\ scenarios[k].name = Classified[headers[k]].title
                  /\ scenarios[k].steps = StepRunFrom(Classified, headers[k] + 1)
            /\ Len(result.val.background) = Len(backgrounds)
            /\ \A k \in 1..Len(backgrounds) :
                  result.val.background[k].steps =
                      StepRunFrom(Classified, backgrounds[k] + 1)

(***************************************************************************)
(* Claims about the line classifier (SpecLine).                            *)
(***************************************************************************)
LineClassified == pc = "done" /\ st.fn = "GherkinLine::from_str"

\* The keywords of a group header and the grouping keyword each stands for.
HeaderWords ==
    { <<<<"F", "e", "a", "t", "u", "r", "e">>, "Feature">>,
      <<<<"B", "a", "c", "k", "g", "r", "o", "u", "n", "d">>, "Background">>,
      <<<<"S", "c", "e", "n", "a", "r", "i", "o">>, "Scenario">>,
      <<<<"E", "x", "a", "m", "p", "l", "e">>, "Scenario">>,
      <<<<"S", "c", "e", "n", "a", "r", "i", "o", " ", "O", "u", "t", "l", "i", "n", "e">>, "ScenarioOutline">>,
      <<<<"S", "c", "e", "n", "a", "r", "i", "o", " ", "T", "e", "m", "p", "l", "a", "t", "e">>, "ScenarioOutline">>,
      <<<<"E", "x", "a", "m", "p", "l", "e", "s">>, "Examples">>,
      <<<<"S", "c", "e", "n", "a", "r", "i", "o", "s">>, "Examples">> }

\* The keywords of a step and the step keyword each stands for.
StepWords ==
    { <<<<"G", "i", "v", "e", "n">>, "Given">>, <<<<"W", "h", "e", "n">>, "When">>, <<<<"T", "h", "e", "n">>, "Then">>,
      <<<<"A", "n", "d">>, "And">>, <<<<"B", "u", "t">>, "But">>, <<<<"*">>, "Bullet">> }

\* The keyword of the words `words` that the line begins with, before the
\* sign `sign`; none when it begins with no such keyword.
KeywordBefore(line, sign, words) ==
    LET split == SplitOnce(line, sign)
        found == {w \in words : split.found /\ Trim(split.before) = w[1]}
    IN  IF found = {} THEN "none" ELSE (CHOOSE w \in found : TRUE)[2]

\* What the five shapes, tried in their order, make of a trimmed line.
FirstShape(line) ==
    IF KeywordBefore(line, ":", HeaderWords) # "none"
    THEN BeginGroup(KeywordBefore(line, ":", HeaderWords),
                    Trim(SplitOnce(line, ":").after))
    ELSE IF KeywordBefore(line, " ", StepWords) # "none"
    THEN StepLine(KeywordBefore(line, " ", StepWords),
                  Trim(SplitOnce(line, " ").after))
    ELSE IF StartsWith(line, <<"@">>) THEN Tags(Tail(line))
    ELSE IF StartsWith(line, <<"|">>) THEN ExampleEntry(line)
    ELSE FreeText(line)

\* C17: the classifier returns one variant for every line, the one of the
\* first shape the trimmed line matches in the order group header, step,
\* tag line, table row, and FreeText for a line that matches none.
C17_FirstShapeWins ==
    LineClassified =>
        /\ result.kind \in {"BeginGroup", "StepLine", "Tags", "ExampleEntry", "FreeText"}
        /\ result = FirstShape(Trim(Concat(arg)))

\* C18: a line that begins with a synonym keyword and a colon is classified
\* as the header of the keyword it stands for: Example as Scenario, Scenario
\* Template as ScenarioOutline, Scenarios as Examples, with the trimmed rest
\* of the line as the title.
C18_SynonymsAreNormalized ==
    (LineClassified /\ Len(arg) >= 2 /\ arg[2] = <<":">>) =>
        LET title == Trim(Concat(SubSeq(arg, 3, Len(arg)))) IN
        /\ arg[1] = <<"E", "x", "a", "m", "p", "l", "e">> => result = BeginGroup("Scenario", title)
        /\ arg[1] = <<"S", "c", "e", "n", "a", "r", "i", "o", " ", "T", "e", "m", "p", "l", "a", "t", "e">> => result = BeginGroup("ScenarioOutline", title)
        /\ arg[1] = <<"S", "c", "e", "n", "a", "r", "i", "o", "s">> => result = BeginGroup("Examples", title)

(***************************************************************************)
(* Claims about blank lines and comments (SpecQuiet).                      *)
(***************************************************************************)
\* A blank line, or a line whose first non-blank character is #.
BlankOrComment(raw) ==
    \/ \A i \in 1..Len(raw) : IsWhite(raw[i])
    \/ \E i \in 1..Len(raw) :
          /\ raw[i] = "#"
          /\ \A j \in 1..(i - 1) : IsWhite(raw[j])

\* The input read so far with its blank lines and comments taken out.
Outspoken ==
    SelectSeq(doc, LAMBDA raw : raw = EndOfInput \/ ~BlankOrComment(raw))

\* The parse of the lines given, each handed to the classifier and none
\* left out, from the state s on.
RECURSIVE Replay(_, _)
Replay(s, lines) ==
    IF lines = <<>> \/ s.pc = "done" THEN s
    ELSE Replay(Resume(s, IF Head(lines) = EndOfInput THEN None
                          ELSE GherkinLineFromStr(Trim(Head(lines)))),
                Tail(lines))

\* C19: blank lines and comments change nothing: the parse of an input
\* stands where the parse of the input without them stands, with the same
\* feature or the same failure when it has returned.
C19_BlankLinesAndCommentsChangeNothing ==
    (st.fn = "Feature::from_str") =>
        LET quiet == Replay([pc |-> "feature_tags", st |-> InitLocals,
                             result |-> NoResult], Outspoken)
        IN  /\ quiet.result = result
            /\ quiet.st = st
            /\ ~FileHandled => quiet.pc = pc

\* A feature was returned from an input with a blank line and a comment
\* between its lines.
C19_Witness ==
    /\ ParseReturned
    /\ IsOk(result)
    /\ Len(result.val.items) = 1
    /\ Len(result.val.items[1].steps) = 1
    /\ \E i, j \in 2..(Len(doc) - 2) :
          /\ doc[i] = <<" ", " ">>
          /\ BlankOrComment(doc[j])
          /\ \E k \in 1..Len(doc[j]) : doc[j][k] = "#"

(***************************************************************************)
(* Claims about the batch driver (SpecBatch).                              *)
(***************************************************************************)
\* C20: when the driver is through with a file, either the parse succeeded,
\* the one file written is the .cs artifact with the export of the feature
\* and the success count has grown by one, or the parse failed, the one
\* file written is the .log with the chained error and the failure count
\* has grown by one; before that nothing is written for the file.
C20_ArtifactOrLog ==
    (st.fn = "Feature::from_str") =>
        IF FileHandled
        THEN \/ /\ IsOk(result)
                /\ IsOk(ExportFeature(result.val))
                /\ output.files =
                       {[name |-> arg.name, ext |-> "cs",
                         content |-> ExportFeature(result.val).val]}
                /\ output.success_count = arg.success_count + 1
                /\ output.failure_count = arg.failure_count
             \/ /\ IsErr(result)
                /\ output.files = {[name |-> arg.name, ext |-> "log",
                                    content |-> FormatError(result)]}
                /\ output.success_count = arg.success_count
                /\ output.failure_count = arg.failure_count + 1
        ELSE output = arg

(***************************************************************************)
(* Claims about the step decoder (SpecStep).                               *)
(***************************************************************************)
StepReturned == pc = "done" /\ st.fn = "Step::new"

\* C21: after a file failed (its error report was written), every later path
\* of the pattern has got its own artifact or its own error report by the
\* time the process ends.
FailedFiles == {f.name : f \in {g \in output.files : g.ext = "log"}}

Reported(name) ==
    \E f \in output.files :
        /\ f.name = name
        /\ \/ f.ext = "log"
           \/ f.ext = "cs" /\ f.content # <<>>

C21_LaterFilesAreHandled ==
    RunOver =>
        \A i \in FailedFiles : \A j \in (i + 1)..arg.paths : Reported(j)

\* A step in which the code gets an item from lines.next(): a line that
\* passes the filter, or the end of the input.
TakesFromIterator ==
    /\ st.fn = "Feature::from_str"
    /\ doc' # doc
    /\ (LineJustRead = EndOfInput \/ ~Filtered(LineJustRead))

\* The item lines.next() returned in the step.
HandedOver == IF LineJustRead = EndOfInput THEN None ELSE ClassifiedJustRead

\* The loops of which a turn runs on `line`, got at s.pc, without a
\* lines.next() of its own or of a function it calls: the loop of
\* Feature::from_str on a line that is no tag line (its lines.next() stands
\* at the end of the turn, after the match), the second loop of
\* ScenarioOutline::from_lines on a line that is neither a tag line nor an
\* untitled Examples header, and the dispatch loop of Feature::from_lines on
\* a keyword it has no arm for.
TurnsWithoutRead(s, line) ==
    LET after == Resume(s, line)
        inSecondLoop ==
            \/ s.pc = "outline_steps" /\ line.kind = "BeginGroup"
            \/ s.pc = "outline_tags" /\ line.kind \notin {"None", "Tags"}
            \/ s.pc = "rows" /\ line.kind = "BeginGroup"
        opensBlock ==
            /\ line.kind = "BeginGroup"
            /\ line.keyword = "Examples"
            /\ ~BlockTitled(line.title)
    IN  (IF s.pc = "feature_tags" /\ line.kind \notin {"None", "Tags"}
         THEN {"title"} ELSE {})
        \cup (IF inSecondLoop /\ ~opensBlock THEN {"example_blocks"} ELSE {})
        \cup (IF /\ IsErr(after.result)
                 /\ after.result.chain[1].msg
                        = "Unexpected keyword at top level of feature"
              THEN {"items"} ELSE {})

\* The loop goes round again: the parse is at a lines.next() of the loop or
\* of a function the loop calls.
TurnGoesOn(loop, after) ==
    CASE loop = "title" -> after.pc = "feature_tags"
      [] loop = "example_blocks" -> after.pc \in {"outline_tags", "labels", "rows"}
      [] loop = "items" -> after.pc # "done"

\* C36 as stated: every turn of every parse loop reads a line, so no step
\* runs a turn that reads none.
C36_EveryTurnReads ==
    [][TakesFromIterator =>
          TurnsWithoutRead([pc |-> pc, st |-> st, result |-> result],
                           HandedOver) = {}]_vars

\* C36: the parse terminates: every step reads one line; a turn of a loop
\* that reads no line leaves its loop, so every turn that goes round again
\* has read one; nothing is read once the parse has returned or the end of
\* the input was read, and the parse returns in the step that reads the
\* end of the input: after at most as many reads as there are lines, plus
\* one.
C36_TurnsThatGoOnRead ==
    [][(st.fn = "Feature::from_str" /\ doc' # doc) =>
          /\ pc \notin {"done", "exported", "panicked", "logged"}
          /\ doc' = Append(doc, LineJustRead)
          /\ EndOfInput \notin {doc[i] : i \in 1..Len(doc)}
          /\ LineJustRead = EndOfInput => pc' = "done"
          /\ TakesFromIterator =>
                \A loop \in TurnsWithoutRead([pc |-> pc, st |-> st,
                                               result |-> result], HandedOver) :
                    ~TurnGoesOn(loop, [pc |-> pc', st |-> st',
                                       result |-> result'])]_vars

\* A parse that returned a feature at the end of the input after turns that
\* read no line: the turn of the second loop of the outline on the header
\* of the scenario that follows it.
C36_Witness ==
    /\ pc = "done"
    /\ IsOk(result)
    /\ doc[Len(doc)] = EndOfInput
    /\ Len(result.val.items) = 2
    /\ result.val.items[1].kind = "Outline"
    /\ result.val.items[2].kind = "Bare"

\* The lines hold no group but the feature: each is filtered, a tag line, a
\* line of free text or a Feature header.
RECURSIVE HeaderOnly(_)
HeaderOnly(lines) ==
    IF lines = <<>> THEN TRUE
    ELSE IF Head(lines) = EndOfInput \/ Filtered(Head(lines))
    THEN HeaderOnly(Tail(lines))
    ELSE LET line == GherkinLineFromStr(Trim(Head(lines))) IN
         /\ \/ line.kind \in {"Tags", "FreeText"}
            \/ line.kind = "BeginGroup" /\ line.keyword = "Feature"
         /\ HeaderOnly(Tail(lines))

\* C37: a returned feature has a Background or at least one item, and the
\* parse of an input that holds no group but the feature fails.
C37_FeatureHasAGroup ==
    ParseReturned =>
        /\ IsOk(result) =>
              (result.val.background # <<>> \/ result.val.items # <<>>)
        /\ HeaderOnly(doc) => IsErr(result)

\* The parse of a Feature header with a description and a tag line failed
\* at the end of the input.
C37_Witness ==
    /\ ParseReturned
    /\ doc = << <<"F", "e", "a", "t", "u", "r", "e", ":", " ", "F">>,
                <<"t", "e", "x", "t">>,
                <<"@", "t">>,
                EndOfInput >>
    /\ IsErr(result)
    /\ result.chain[1].msg = "Feature terminated without any scenarios."

\* C35: the export of a feature that Feature::from_str returned completes:
\* no state is the one after its panic, and every returned feature has an
\* export, the features with an outline without example block included.
C35_ExportCompletes ==
    /\ pc # "panicked"
    /\ (ParseReturned /\ IsOk(result)) => IsOk(ExportFeature(result.val))

\* What the driver makes of a file when the file is the only one of its
\* batch: the artifact of its feature, the report of its error, or the empty
\* artifact the panic of its export leaves.
OutcomeOf(content) ==
    LET parse == Replay([pc |-> "feature_tags", st |-> InitLocals,
                         result |-> NoResult], content \o <<EndOfInput>>)
    IN  IF IsErr(parse.result)
        THEN [ext |-> "log", content |-> FormatError(parse.result)]
        ELSE IF IsOk(ExportFeature(parse.result.val))
        THEN [ext |-> "cs", content |-> ExportFeature(parse.result.val).val]
        ELSE [ext |-> "cs", content |-> <<>>]

\* C34: when the batch is over, the output files are the outcomes of the
\* files of the batch, each what its file alone gives: the same for every
\* order of the same files.
C34_OutputsAreThoseOfTheFiles ==
    (RunOver /\ "files" \in DOMAIN arg) =>
        {[ext |-> f.ext, content |-> f.content] : f \in output.files}
            = {OutcomeOf(arg.files[k]) : k \in 1..Len(arg.files)}

\* C3: every Step that Step::new returns has one more literal than it has
\* variables.
C3_LiteralsOneMoreThanVariables ==
    (StepReturned /\ IsOk(result)) =>
        Len(result.val.literals) = Len(result.val.variables) + 1

C3_Witness ==
    /\ StepReturned
    /\ IsOk(result)
    /\ Len(result.val.variables) >= 1

\* literals[1], <variables[1]>, literals[2], ..., the last literal.
RECURSIVE Interleave(_, _)
Interleave(literals, variables) ==
    IF variables = <<>> \/ Len(literals) < 2 THEN Concat(literals)
    ELSE Head(literals) \o <<"<">> \o Head(variables) \o <<">">>
         \o Interleave(Tail(literals), Tail(variables))

\* C4: interleaving the literals and the bracketed variables of a decoded
\* step gives back the trimmed step text.
C4_RoundTrip ==
    (StepReturned /\ IsOk(result)) =>
        Interleave(result.val.literals, result.val.variables) = Trim(arg)

\* A `<` is opened in the text and no `>` closes it: the scan of the text for
\* the next `<`, then for the next `>` after it, fails to find the `>`.
RECURSIVE UnclosedPlaceholder(_)
UnclosedPlaceholder(text) ==
    LET open == FindFrom(text, {"<"}, 1)
        close == FindFrom(text, {">"}, open + 1)
    IN  IF open = 0 THEN FALSE
        ELSE IF close = 0 THEN TRUE
        ELSE UnclosedPlaceholder(SubSeq(text, close + 1, Len(text)))

\* C5: Step::new fails exactly on the texts that open a placeholder and
\* never close it, and a text without `<` is decoded as one literal and no
\* variable.
C5_FailsIffUnclosed ==
    StepReturned =>
        /\ IsErr(result) <=> UnclosedPlaceholder(Trim(arg))
        /\ FindFrom(arg, {"<"}, 1) = 0 =>
              /\ IsOk(result)
              /\ result.val.literals = <<Trim(arg)>>
              /\ result.val.variables = <<>>

(***************************************************************************)
(* Claims about the table decoder (SpecRow).                               *)
(***************************************************************************)
RowReturned == pc = "done" /\ st.fn = "ExampleRow::from_str"

PlainTexts == BoundedSeq({"a", "b"}, 2)

\* The row | x\|y |
RowWithEscapedPipe(x, y) == <<"|">> \o x \o EscapedPipe \o y \o <<"|">>

\* C6: a row whose only cell holds an escaped pipe, as in |a\|b|, decodes to
\* one cell, the text with the backslash removed: a|b.
C6_EscapedPipeIsOneCell ==
    \A x, y \in PlainTexts :
        (RowReturned /\ arg = RowWithEscapedPipe(x, y)) =>
            result = Ok([entries |-> <<x \o <<"|">> \o y>>])

C6_Witness ==
    /\ RowReturned
    /\ arg = RowWithEscapedPipe(<<"a">>, <<"b">>)
    /\ IsOk(result)
    /\ result.val.entries = << <<"a", "|", "b">> >>

\* The number of pipes of s that no backslash escapes.
RECURSIVE UnescapedPipes(_, _)
UnescapedPipes(s, escaping) ==
    IF s = <<>> THEN 0
    ELSE IF escaping THEN UnescapedPipes(Tail(s), FALSE)
    ELSE IF Head(s) = "\\" THEN UnescapedPipes(Tail(s), TRUE)
    ELSE (IF Head(s) = "|" THEN 1 ELSE 0) + UnescapedPipes(Tail(s), FALSE)

\* C7: a row with fewer than two unescaped pipes fails to decode, and a
\* decoded row has at least one cell.
C7_FewerThanTwoPipesFails ==
    RowReturned =>
        /\ UnescapedPipes(arg, FALSE) < 2 => IsErr(result)
        /\ IsOk(result) => Len(result.val.entries) >= 1

\* C23: every input of the shape of the tests (Feature header, Scenario with
\* one or more steps, Scenario Outline with steps and one or more example
\* blocks, each with or without a tag line before it and each a label row
\* and rows of the width of the label row) parses successfully: the parse
\* returns on no line of such an input but its end, and then with a feature.
C23_TestShapedInputsParse ==
    (ParseReturned /\ ShapePlace(doc).at # "off") =>
        (TestShaped(doc) /\ IsOk(result))

\* An input of the shape was parsed: its outline has a block without tags
\* and a tagged block, one of them with two rows of two cells.
C23_Witness ==
    /\ ParseReturned
    /\ TestShaped(doc)
    /\ IsOk(result)
    /\ Len(result.val.items) = 2
    /\ Len(result.val.items[2].example_blocks) = 2
    /\ \E b \in 1..2 :
          /\ Len(result.val.items[2].example_blocks[b].examples) = 2
          /\ Len(result.val.items[2].example_blocks[b].labels.entries) = 2

\* The character at place i of s is escaped: a backslash that is not itself
\* escaped stands right before it.
RECURSIVE IsEscaped(_, _)
IsEscaped(s, i) == i > 1 /\ s[i - 1] = "\\" /\ ~IsEscaped(s, i - 1)

\* The places of the unescaped pipes of s.
PipePlaces(s) == {i \in 1..Len(s) : s[i] = "|" /\ ~IsEscaped(s, i)}

\* The n-th of a set of places, in rising order.
NthPlace(places, n) ==
    CHOOSE i \in places : Cardinality({j \in places : j < i}) = n - 1

\* The text between the n-th and the next unescaped pipe of s, trimmed and
\* with each escaped pipe put back as a pipe.
CellBetween(s, n) ==
    LET from == NthPlace(PipePlaces(s), n)
        to == NthPlace(PipePlaces(s), n + 1)
    IN  Replace(Trim(SubSeq(s, from + 1, to - 1)), EscapedPipe, <<"|">>)

\* C30: a row with k >= 2 unescaped pipes decodes to exactly k - 1 cells,
\* the n-th being the trimmed text between the n-th and the next unescaped
\* pipe with every \| put back as |; a pipe is unescaped unless a backslash
\* that is not itself escaped stands before it, so the pipe of \\| splits.
C30_SplitsAtUnescapedPipes ==
    (RowReturned /\ Cardinality(PipePlaces(arg)) >= 2) =>
        result = Ok([entries |->
                        [n \in 1..(Cardinality(PipePlaces(arg)) - 1) |->
                            CellBetween(arg, n)]])

\* The row \\|\|| was decoded: the pipe after the escaped backslash is the
\* first split point, the pipe after the lone backslash is the cell.
C30_Witness ==
    /\ RowReturned
    /\ arg = <<"\\", "\\", "|", "\\", "|", "|">>
    /\ result = Ok([entries |-> << <<"|">> >>])

\* C31: a row decodes only if nothing but blanks stands before its first and
\* after its last unescaped pipe: the two segments the decoder drops hold no
\* text.
C31_NoTextOutsideThePipes ==
    (RowReturned /\ IsOk(result)) =>
        /\ PipePlaces(arg) # {}
        /\ LET first == NthPlace(PipePlaces(arg), 1)
               last == NthPlace(PipePlaces(arg), Cardinality(PipePlaces(arg)))
           IN  /\ Trim(SubSeq(arg, 1, first - 1)) = <<>>
               /\ Trim(SubSeq(arg, last + 1, Len(arg))) = <<>>

TagsCollected == pc = "done" /\ st.fn = "GherkinTags::into_iter"

\* The places of the @ signs of s.
AtPlaces(s) == {i \in 1..Len(s) : s[i] = "@"}

\* The text between the n-th @ sign of s and the next, or the end of s,
\* trimmed.
TagBetween(s, n) ==
    LET from == NthPlace(AtPlaces(s), n)
        to == IF n < Cardinality(AtPlaces(s)) THEN NthPlace(AtPlaces(s), n + 1)
              ELSE Len(s) + 1
    IN  Trim(SubSeq(s, from + 1, to - 1))

\* C33: a line that starts with @ is a tag line, never an error, and its
\* tags are the texts after each @ sign up to the next, trimmed, in order:
\* one tag per @ sign, the empty ones included.
C33_OneTagPerAtSign ==
    (TagsCollected /\ Trim(arg) # <<>> /\ Trim(arg)[1] = "@") =>
        /\ result.line.kind = "Tags"
        /\ result.tags = [n \in 1..Cardinality(AtPlaces(Trim(arg))) |->
                              TagBetween(Trim(arg), n)]

\* The tags of `@a@@b` were collected: a, the empty tag, b.
C33_Witness ==
    /\ TagsCollected
    /\ arg = <<"@", "a", "@", "@", "b">>
    /\ result.tags = << <<"a">>, <<>>, <<"b">> >>

\* A read in the rows of an example block takes a table row with fewer
\* than two unescaped pipes.
ReadsMalformedRow ==
    /\ ReadsALine
    /\ pc = "rows"
    /\ ClassifiedJustRead.kind = "ExampleEntry"
    /\ UnescapedPipes(ClassifiedJustRead.text, FALSE) < 2

\* C22: a table row that fails to decode in the rows of the k-th example
\* block of outline X of feature Y makes Feature::from_str return an error
\* that carries, from the cause outwards: the malformed-row message, the
\* row, the number k of the block (the blocks of X parsed so far plus one)
\* with X, and X with Y.
C22_RowFailureIsChained ==
    [][ReadsMalformedRow =>
          /\ pc' = "done"
          /\ IsErr(result')
          /\ result'.chain =
                 << [msg |-> "This example row seems to be malformed, containing less than two pipes",
                     input |-> ClassifiedJustRead.text],
                    [msg |-> "Failed to read example row",
                     row |-> ClassifiedJustRead.text],
                    [msg |-> "Failed to parse example block",
                     number |-> Len(st.example_blocks) + 1,
                     outline |-> st.group_name],
                    [msg |-> "Failed to parse Scenario Outline",
                     outline |-> st.group_name,
                     feature |-> st.name] >>]_vars

(***************************************************************************)
(* Claims about the type inference (SpecTypes).                            *)
(***************************************************************************)
TypesReturned == pc = "done" /\ st.fn = "calculate_arg_types"

\* C8: reordering the example rows of an outline, within a block or across
\* its blocks, leaves every inferred column type as it was.
C8_RowOrderIrrelevant ==
    [][(TypesReturned /\ TypesReturned') => result' = result]_vars

C8_Witness ==
    /\ TypesReturned
    /\ st.swapped
    /\ st.moved
    /\ Len(arg) = 2
    /\ \A b \in 1..2 : arg[b].examples # <<>>
    /\ \E i \in 1..Len(result.val) : result.val[i] # "String"
    /\ \E r, q \in 1..Len(AllExamples(arg)) :
          AllExamples(arg)[r] # AllExamples(arg)[q]

\* The types of the cells that the rows have in column i.
CellTypes(blocks, i) ==
    {CSTypeFrom(AllExamples(blocks)[r].entries[i]) :
        r \in {q \in 1..Len(AllExamples(blocks)) :
                  i <= Len(AllExamples(blocks)[q].entries)}}

\* The types of column i over all rows, a row without an i-th cell counting
\* as a String cell.
EntryTypes(blocks, i) ==
    {IF i <= Len(AllExamples(blocks)[r].entries)
     THEN CSTypeFrom(AllExamples(blocks)[r].entries[i])
     ELSE "String" : r \in 1..Len(AllExamples(blocks))}

TheType(types) == IF Cardinality(types) = 1 THEN CHOOSE t \in types : TRUE ELSE "String"

FarmParsed == ParseReturned /\ doc = Append(FarmInput, EndOfInput)

\* The feature the Farm input is to parse to, with `steps` steps in its
\* outline.
FarmFeature(steps) ==
    /\ IsOk(result)
    /\ Len(result.val.items) = 1
    /\ LET outline == result.val.items[1] IN
          /\ outline.kind = "Outline"
          /\ outline.name = <<"S", "h", "a", "v", "e", " ", "a", "n", " ", "a", "n", "i", "m", "a", "l">>
          /\ Len(outline.steps) = steps
          /\ Len(outline.example_blocks) = 1
          /\ outline.example_blocks[1].labels.entries =
                 << <<"a", "n", "i", "m", "a", "l">>, <<"n", "o", "i", "s", "e">> >>
          /\ Len(outline.example_blocks[1].examples) = 2
          /\ outline.example_blocks[1].examples[1].entries =
                 << <<"c", "o", "w">>, <<"m", "o", "o">> >>
          /\ outline.example_blocks[1].examples[2].entries =
                 << <<"h", "o", "r", "s", "e">>, <<"n", "e", "i", "g", "h">> >>
          /\ CalculateArgTypes(outline.example_blocks) = <<"String", "String">>

\* C10 as stated: the Farm input parses to one feature with one outline
\* named "Shave an animal" of 2 steps and 1 example block with the labels
\* animal and noise and 2 rows, both columns of type String.
C10_FarmWithTwoSteps == FarmParsed => FarmFeature(2)

\* C10: the Farm input parses to one feature with one outline named
\* "Shave an animal" of 3 steps, one per step line of the input, and 1
\* example block with the labels animal and noise and the 2 rows cow/moo and
\* horse/neigh, both columns of type String.
C10_FarmWithThreeSteps == FarmParsed => FarmFeature(3)

\* The Farm input was parsed to its end and a feature was returned.
C10_Witness == FarmParsed /\ IsOk(result) /\ pc = "done"
=============================================================================
